---- MODULE Spec2Model ----
(***************************************************************************)
(* A model of the PrinterProtocol pipeline:                                *)
(*   - XmlCommandTemplate.render (python/printer_templates/xml_loader.py)  *)
(*   - JsonCommandInterpreter.run (python/printer_protocol.py)             *)
(*   - the drivers PD41Driver and GdiDriverStub (python/drivers)           *)
(*                                                                         *)
(* Conventions.                                                            *)
(*   - Python floats are integers counting TENTHS (10.0 is 100, 2.5 is 25).*)
(*   - None is the value of an XML attribute that is absent (elem.get      *)
(*     returns None) and of a nullable string; NoneF is None in a float    *)
(*     slot.  Missing is a key that a mapping does not have.               *)
(*   - The template and the command list of an envelope are revealed one   *)
(*     element at a time, as the loops of render and _execute read them;   *)
(*     what has been read is kept in the state (groups, commands_in).      *)
(***************************************************************************)
EXTENDS Integers, Sequences, FiniteSets, TLC

None    == "<None>"
Missing == "<missing>"
NoneF   == -1000000

\* ---- bounds -------------------------------------------------------------
MaxGroups   == 2
MaxChildren == 2
MaxCmds     == 2
MaxRuns     == 2
MaxDispatchRuns == 1
MaxCalls    == 3
MaxEmits    == 2
MaxEmitterRuns == 1
MaxDirect   == 2
MaxConns == 2

VARIABLES
    \* XmlCommandTemplate (the parsed template, revealed as render reads it)
    base_font,      \* self.base_font
    groups,         \* self.root.findall("Group"), each with its children
    \* one render call
    rpc,            \* position of render: idle, groups, children, done
    values,         \* the values argument of render
    state,          \* _RenderState
    commands,       \* emitter._commands
    layout,         \* emitter._layout
    offset,         \* <<offset_x, offset_y>> of the current group
    \* the driver instance handed to JsonCommandInterpreter
    drv,            \* its attributes: origin, y_direction, label_*, units, dpi, sock, sent
    \* one run call
    ipc,            \* position of run: idle, configured, executing, exiting, done, failed
    data,           \* the layout fields of the envelope being run
    commands_in,    \* the entries of data["commands"] read so far
    err,            \* the exception run is raising or has raised
    calls,          \* the driver methods this run has invoked, with their arguments
    session,        \* [enters, exits]: __enter__ / __exit__ calls of this run
    output,         \* the lines this run made the driver print
    runs,           \* number of run calls so far
    payload,        \* the kind of payload handed to run called as a whole
    \* a JsonCommandEmitter used directly (its _commands and _layout are the
    \* variables commands and layout)
    returned,       \* the entry the last emit returned: its index in commands, 0 for a detached one
    json_doc,       \* json.loads of the last to_json() text
    \* printer_templates.registry
    cache,          \* the lru_cache of get_template: name -> parsed template
    parses,         \* name -> number of XmlCommandTemplate(path) constructions
    rendered,       \* the get_template / render_template calls made, with their results
    \* utils.pd41.PrinterClient
    client,         \* its attributes: dry_run, _sock, sent, _font_name, _font_size, wire
    \* utils.pd41.ScleralLabelTemplate
    record,         \* the v argument of compute_fields
    fields,         \* what compute_fields returned
    \* utils.label_server_v2
    server          \* run_label_server_v2: its position, connections and drivers

rvars == <<base_font, groups, rpc, values, state, commands, layout, offset>>

ivars == <<drv, ipc, data, commands_in, err, calls, session, output, runs, payload>>

fvars == <<record, fields, server>>

xvars == <<returned, json_doc, cache, parses, rendered, client, fvars>>

vars == <<rvars, ivars, xvars>>

\* ---- helpers of xml_loader.py -------------------------------------------

\* float(value) for the strings of the model; every other string, and None,
\* makes float raise.
NumStrings == [s \in {"0", "5", "7", "10", "12", "2.5", "40", "60", "96", "300"} |->
                 CASE s = "0"   -> 0
                   [] s = "5"   -> 50
                   [] s = "7"   -> 70
                   [] s = "10"  -> 100
                   [] s = "12"  -> 120
                   [] s = "2.5" -> 25
                   [] s = "40"  -> 400
                   [] s = "60"  -> 600
                   [] s = "96"  -> 960
                   [] s = "300" -> 3000]

_to_float(value, default) ==
    IF value \in DOMAIN NumStrings THEN NumStrings[value] ELSE default

\* bool(s) of a nullable string
Truthy(s) == s \notin {None, ""}

\* a or b, for nullable strings
OrElse(a, b) == IF Truthy(a) THEN a ELSE b

\* " ".join(text.split()) on the comment texts of the model
_normalise_text(text) ==
    CASE text = None      -> ""
      [] text = ""        -> ""
      [] text = "  "      -> ""
      [] text = " a  b "  -> "a b"
      [] OTHER            -> text

\* elem.tag.lower()
Lower(tag) ==
    CASE tag = "Field"   -> "field"
      [] tag = "Barcode" -> "barcode"
      [] tag = "Box"     -> "box"
      [] OTHER           -> tag

\* the tag of a comment node is not a string
CommentTag == "<!-- -->"

Cmd(name, args) == [name |-> name, args |-> args]
NoArgs == [k \in {} |-> 0]
EmptyDict == [k \in {} |-> 0]

\* emit that appends only the commands of the protocol
M_emit_validating(cmds, name, args) ==
    IF name \in {"Setup", "SetFont", "SetAlignment", "SetDirection", "MoveTo",
                 "DrawText", "DrawBarcode", "Comment", "PrintFeed"}
    THEN Append(cmds, Cmd(name, args)) ELSE cmds

\* JsonCommandEmitter.emit
emit(cmds, name, args) == Append(cmds, Cmd(name, args))

\* _emit_command: emit(name) and then args.update(kwargs) on the stored entry
_emit_command(cmds, name, args) == Append(cmds, Cmd(name, args))

FreshState == [font |-> None, size |-> NoneF, align |-> None, direction |-> None]

\* state.size or 0.0
SizeOrZero(st) == IF st.size = NoneF THEN 0 ELSE st.size

\* _update_state without the comparison of line 177: SetFont for every field
M_update_font_always(bf, st, cmds, font, size) ==
    IF Truthy(font) \/ size # NoneF
    THEN LET chosen_font == IF Truthy(font) THEN font ELSE OrElse(st.font, bf)
             size1       == IF size # NoneF THEN size ELSE st.size
             chosen_size == IF size1 = NoneF THEN SizeOrZero(st) ELSE size1
         IN  [st   |-> [st EXCEPT !.font = chosen_font, !.size = chosen_size],
              cmds |-> _emit_command(cmds, "SetFont",
                                     [name |-> chosen_font, size |-> chosen_size])]
    ELSE [st |-> st, cmds |-> cmds]

\* XmlCommandTemplate._update_state, lines 172-180: the new state and command list
_update_font(bf, st, cmds, font, size) ==
    IF Truthy(font) \/ size # NoneF
    THEN LET chosen_font == IF Truthy(font) THEN font ELSE OrElse(st.font, bf)
             size1       == IF size # NoneF THEN size ELSE st.size
             chosen_size == IF size1 = NoneF THEN SizeOrZero(st) ELSE size1
         IN  IF st.font # chosen_font \/ st.size # chosen_size
             THEN [st   |-> [st EXCEPT !.font = chosen_font, !.size = chosen_size],
                   cmds |-> _emit_command(cmds, "SetFont",
                                          [name |-> chosen_font, size |-> chosen_size])]
             ELSE [st |-> st, cmds |-> cmds]
    ELSE [st |-> st, cmds |-> cmds]

\* _update_state emitting the alignment under a name the interpreter does not know
M_update_align_renamed(st, cmds, align) ==
    IF align # None /\ align # st.align
    THEN [st   |-> [st EXCEPT !.align = align],
          cmds |-> emit(cmds, "SetAlign", [align |-> align])]
    ELSE [st |-> st, cmds |-> cmds]

_update_align(st, cmds, align) ==
    IF align # None /\ align # st.align
    THEN [st   |-> [st EXCEPT !.align = align],
          cmds |-> emit(cmds, "SetAlignment", [align |-> align])]
    ELSE [st |-> st, cmds |-> cmds]

_update_direction(st, cmds, direction) ==
    IF direction # None /\ direction # st.direction
    THEN [st   |-> [st EXCEPT !.direction = direction],
          cmds |-> emit(cmds, "SetDirection", [direction |-> direction])]
    ELSE [st |-> st, cmds |-> cmds]

_update_state(bf, st, cmds, font, size, align, direction) ==
    LET r1 == _update_font(bf, st, cmds, font, size)
        r2 == _update_align(r1.st, r1.cmds, align)
    IN  _update_direction(r2.st, r2.cmds, direction)

\* ---- text resolution ----------------------------------------------------

Keys == {"NAME"}

\* value_map = {k: "" if v is None else str(v)} (render, line 79)
ValueMap(vals) ==
    [k \in DOMAIN vals |-> IF vals[k] = Missing THEN Missing
                    ELSE IF vals[k] = None THEN "" ELSE vals[k]]

\* a lookup that always gives the default
M_MapGet_default(vm, name, default) == default

\* values.get(name, default)
MapGet(vm, name, default) ==
    IF name \in DOMAIN vm /\ vm[name] # Missing THEN vm[name] ELSE default

\* "{" in template and "}" in template, for the texts of the model
HasBraces(t) == t \in {"Hello {NAME}", "{}", "{0}", "}{", "{World}"}

\* template.format(**values): the text, or the exception str.format raises
PyFormat(t, vm) ==
    CASE t = "Hello {NAME}" ->
            IF MapGet(vm, "NAME", Missing) # Missing
            THEN [exc |-> "none", text |-> "Hello " \o vm["NAME"]]
            ELSE [exc |-> "KeyError", text |-> t]
      [] t = "{World}" -> [exc |-> "KeyError", text |-> t]
      [] t = "}{"      -> [exc |-> "ValueError", text |-> t]
      [] t \in {"{}", "{0}"} -> [exc |-> "IndexError", text |-> t]
      [] OTHER -> [exc |-> "none", text |-> t]

\* XmlCommandTemplate._format: KeyError and ValueError fall back to the text
_format(t, vm) ==
    IF HasBraces(t)
    THEN LET r == PyFormat(t, vm)
         IN  IF r.exc \in {"KeyError", "ValueError"}
             THEN [exc |-> "none", text |-> t]
             ELSE r
    ELSE [exc |-> "none", text |-> t]

\* elem.get(k, default)
Get(elem, k, default) == IF elem[k] = None THEN default ELSE elem[k]

\* XmlCommandTemplate._resolve_text
_resolve_text(elem, vm) ==
    IF Truthy(elem.text)
    THEN _format(elem.text, vm)
    ELSE LET name     == OrElse(elem.name, "")
             prefix   == Get(elem, "prefix", "")
             suffix   == Get(elem, "suffix", "")
             value    == MapGet(vm, name, "")
             composed == prefix \o value \o suffix
         IN  _format(composed, vm)

\* int(f) truncates toward zero; f counts tenths
PyInt(f) == IF f >= 0 THEN f \div 10 ELSE -((-f) \div 10)

\* ---- XmlCommandTemplate._render_field -----------------------------------
\* the size a field resolves to (lines 112-117)
FieldSize(elem, st) ==
    IF elem.size # None /\ elem.size \notin {"", " "}
    THEN _to_float(elem.size, SizeOrZero(st))
    ELSE st.size

\* the font a field resolves to (line 111)
FieldFont(bf, elem) == OrElse(elem.font, bf)

\* _render_field that forgets the offsets of the group (lines 123-124)
M_render_field_no_offset(bf, elem, vm, st, cmds, off) ==
    LET font == FieldFont(bf, elem)
        size == FieldSize(elem, st)
        r    == _update_state(bf, st, cmds, font, size, elem.align, elem.dir)
        x    == _to_float(elem.x, 0)
        y    == _to_float(elem.y, 0)
        text == _resolve_text(elem, vm)
    IN  IF text.exc # "none"
        THEN [exc |-> text.exc, st |-> r.st, cmds |-> r.cmds]
        ELSE [exc |-> "none", st |-> r.st,
              cmds |-> emit(emit(r.cmds, "MoveTo", [x |-> x, y |-> y]),
                            "DrawText", [text |-> text.text])]

_render_field(bf, elem, vm, st, cmds, off) ==
    LET font == FieldFont(bf, elem)
        size == FieldSize(elem, st)
        r    == _update_state(bf, st, cmds, font, size, elem.align, elem.dir)
        x    == off[1] + _to_float(elem.x, 0)
        y    == off[2] + _to_float(elem.y, 0)
        text == _resolve_text(elem, vm)
    IN  IF text.exc # "none"
        THEN [exc |-> text.exc, st |-> r.st, cmds |-> r.cmds]
        ELSE [exc |-> "none", st |-> r.st,
              cmds |-> emit(emit(r.cmds, "MoveTo", [x |-> x, y |-> y]),
                            "DrawText", [text |-> text.text])]

\* ---- XmlCommandTemplate._render_barcode ---------------------------------
\* _render_barcode that resolves the base font like a field does
M_render_barcode_with_font(bf, elem, vm, st, cmds, off) ==
    LET r     == _update_state(bf, st, cmds, bf, NoneF, elem.align, elem.dir)
        x     == off[1] + _to_float(elem.x, 0)
        y     == off[2] + _to_float(elem.y, 0)
        raw   == Get(elem, "value", "")
        value == MapGet(vm, OrElse(elem.name, ""), raw)
    IN  [exc |-> "none", st |-> r.st,
         cmds |-> emit(emit(r.cmds, "MoveTo", [x |-> x, y |-> y]),
                       "DrawBarcode",
                       [value  |-> OrElse(value, ""),
                        type   |-> Get(elem, "type", "DATAMATRIX"),
                        width  |-> PyInt(_to_float(elem.width, 10)),
                        ratio  |-> PyInt(_to_float(elem.ratio, 10)),
                        height |-> PyInt(_to_float(elem.height, 10)),
                        size   |-> PyInt(_to_float(elem.size, 1000))])]

_render_barcode(bf, elem, vm, st, cmds, off) ==
    LET r     == _update_state(bf, st, cmds, None, NoneF, elem.align, elem.dir)
        x     == off[1] + _to_float(elem.x, 0)
        y     == off[2] + _to_float(elem.y, 0)
        raw   == Get(elem, "value", "")
        value == MapGet(vm, OrElse(elem.name, ""), raw)
    IN  [exc |-> "none", st |-> r.st,
         cmds |-> emit(emit(r.cmds, "MoveTo", [x |-> x, y |-> y]),
                       "DrawBarcode",
                       [value  |-> OrElse(value, ""),
                        type   |-> Get(elem, "type", "DATAMATRIX"),
                        width  |-> PyInt(_to_float(elem.width, 10)),
                        ratio  |-> PyInt(_to_float(elem.ratio, 10)),
                        height |-> PyInt(_to_float(elem.height, 10)),
                        size   |-> PyInt(_to_float(elem.size, 1000))])]

\* ---- the inputs of a render ----------------------------------------------

Elem(tag, font, size, align, dir, text) ==
    [tag |-> tag, font |-> font, size |-> size, align |-> align, dir |-> dir,
     x |-> "5", y |-> "7", text |-> text, name |-> "NAME",
     prefix |-> None, suffix |-> None, value |-> None, type |-> None,
     width |-> None, ratio |-> "2.5", height |-> None]

\* fields that override nothing, the font and the size, the size alone (a
\* number, a text that is no number, a blank), the alignment, the direction,
\* and all four
FieldElems ==
    { Elem("Field", None, None, None, None, None),
      Elem("Field", "Mono", "10", None, None, None),
      Elem("Field", "Mono", "12", None, None, None),
      Elem("Field", None, "10", None, None, None),
      Elem("Field", None, "abc", None, None, None),
      Elem("Field", None, " ", None, None, None),
      Elem("Field", None, None, "left", None, None),
      Elem("Field", None, None, "right", "1", None),
      Elem("Field", None, None, None, "3", None),
      Elem("Field", "Mono", "10", "left", "1", None) }

BarcodeElems ==
    { Elem("Barcode", None, None, None, None, None),
      Elem("Barcode", None, None, "right", "3", None) }

\* fields with a text attribute (a placeholder of the value map, a positional
\* and an empty placeholder, unbalanced braces, an unknown key, no braces) and
\* fields that compose prefix + value + suffix
TextElems ==
    { [Elem("Field", None, None, None, None, t) EXCEPT !.prefix = ps[1], !.suffix = ps[2]] :
        t  \in {None, "Hello {NAME}", "{}", "{0}", "}{", "{World}", "plain"},
        ps \in { <<None, None>>, <<"Hello ", None>>, <<"{", "}">> } }

CommentElems == { Elem(CommentTag, None, None, None, None, t) : t \in {"note", "  "} }

OtherElems == { Elem("Box", None, None, None, None, None) }

\* a group with offsetX and the lower-case offsety
GroupAttrs ==
    { [offsetX |-> "10", offsetx |-> None, offsetY |-> None, offsety |-> "12"] }

ValueMaps == [Keys -> {Missing, "World"}]

BaseFonts == {"Swiss", ""}

\* the template geometry handed to set_layout (fixed: one label format)
TemplateLayout ==
    [width |-> 600, height |-> 400, units |-> "mm",
     origin |-> "bottom-left", y_direction |-> "up", dpi |-> NoneF]

NChildren == LET RECURSIVE Sum(_)
                 Sum(i) == IF i = 0 THEN 0 ELSE Len(groups[i].children) + Sum(i - 1)
             IN  Sum(Len(groups))

\* ---- XmlCommandTemplate.render, one action per step of its loops ---------

\* lines 64-79: the emitter, its layout, Setup, a fresh render state
RenderBegin(vals) ==
    /\ rpc = "idle"
    /\ values' = ValueMap(vals)
    /\ layout' = TemplateLayout
    /\ commands' = _emit_command(<<>>, "Setup", [name |-> "label"])
    /\ state' = FreshState
    /\ rpc' = "groups"
    /\ UNCHANGED <<base_font, groups, offset>>
    /\ UNCHANGED <<ivars, xvars>>

\* lines 81-83: the next Group element and its offsets
NextGroup(g) ==
    /\ rpc = "groups"
    /\ Len(groups) < MaxGroups
    /\ groups' = Append(groups, [attrs |-> g, children |-> <<>>])
    /\ offset' = <<_to_float(OrElse(g.offsetX, g.offsetx), 0),
                   _to_float(OrElse(g.offsetY, g.offsety), 0)>>
    /\ rpc' = "children"
    /\ UNCHANGED <<base_font, values, state, commands, layout>>
    /\ UNCHANGED <<ivars, xvars>>

ReadChild(elem) ==
    /\ rpc = "children"
    /\ NChildren < MaxChildren
    /\ groups' = [groups EXCEPT ![Len(groups)].children = Append(@, elem)]

\* lines 86-90: a comment node
RenderComment(elem) ==
    /\ ReadChild(elem)
    /\ elem.tag = CommentTag
    /\ LET comment == _normalise_text(elem.text)
       IN  commands' = IF comment # "" THEN emit(commands, "Comment", [text |-> comment])
                       ELSE commands
    /\ UNCHANGED <<base_font, rpc, values, state, layout, offset>>
    /\ UNCHANGED <<ivars, xvars>>

\* lines 93-94
RenderField(elem) ==
    /\ ReadChild(elem)
    /\ elem.tag # CommentTag /\ Lower(elem.tag) = "field"
    /\ LET r == _render_field(base_font, elem, values, state, commands, offset)
       IN  /\ state' = r.st
           /\ commands' = r.cmds
           /\ rpc' = IF r.exc = "none" THEN rpc ELSE "raised"
    /\ UNCHANGED <<base_font, values, layout, offset>>
    /\ UNCHANGED <<ivars, xvars>>

\* lines 95-96
RenderBarcode(elem) ==
    /\ ReadChild(elem)
    /\ elem.tag # CommentTag /\ Lower(elem.tag) = "barcode"
    /\ LET r == _render_barcode(base_font, elem, values, state, commands, offset)
       IN  /\ state' = r.st
           /\ commands' = r.cmds
           /\ rpc' = IF r.exc = "none" THEN rpc ELSE "raised"
    /\ UNCHANGED <<base_font, values, layout, offset>>
    /\ UNCHANGED <<ivars, xvars>>

\* an element that is neither a field nor a barcode is skipped
RenderOther(elem) ==
    /\ ReadChild(elem)
    /\ elem.tag # CommentTag /\ Lower(elem.tag) \notin {"field", "barcode"}
    /\ UNCHANGED <<base_font, rpc, values, state, commands, layout, offset>>
    /\ UNCHANGED <<ivars, xvars>>

\* the inner loop is exhausted
EndGroup ==
    /\ rpc = "children"
    /\ rpc' = "groups"
    /\ UNCHANGED <<base_font, groups, values, state, commands, layout, offset>>
    /\ UNCHANGED <<ivars, xvars>>

\* render returning without the PrintFeed of line 98
M_RenderEnd_no_feed ==
    /\ rpc = "groups"
    /\ rpc' = "done"
    /\ UNCHANGED <<base_font, groups, values, state, commands, layout, offset>>
    /\ UNCHANGED <<ivars, xvars>>

\* lines 98-99: the outer loop is exhausted
RenderEnd ==
    /\ rpc = "groups"
    /\ commands' = emit(commands, "PrintFeed", NoArgs)
    /\ rpc' = "done"
    /\ UNCHANGED <<base_font, groups, values, state, layout, offset>>
    /\ UNCHANGED <<ivars, xvars>>

RenderInit ==
    /\ base_font \in BaseFonts
    /\ groups = <<>>
    /\ rpc = "idle"
    /\ values = [k \in Keys |-> Missing]
    /\ state = FreshState
    /\ commands = <<>>
    /\ layout = [units |-> "mm", origin |-> "bottom-left", y_direction |-> "up"]
    /\ offset = <<0, 0>>

Elems == FieldElems \cup BarcodeElems \cup CommentElems \cup OtherElems

RenderNext ==
    \/ \E vals \in ValueMaps : RenderBegin(vals)
    \/ \E g \in GroupAttrs : NextGroup(g)
    \/ \E elem \in Elems : RenderComment(elem)
    \/ \E elem \in Elems : RenderField(elem)
    \/ \E elem \in Elems : RenderBarcode(elem)
    \/ \E elem \in Elems : RenderOther(elem)
    \/ EndGroup
    \/ RenderEnd


\* ---- XmlCommandTemplate.render as one call ---------------------------------

\* lines 86-96: one child of a group
RenderChild(bf, elem, vm, st, cmds, off) ==
    IF elem.tag = CommentTag
    THEN LET comment == _normalise_text(elem.text)
         IN  [exc |-> "none", st |-> st,
              cmds |-> IF comment # "" THEN emit(cmds, "Comment", [text |-> comment])
                       ELSE cmds]
    ELSE IF Lower(elem.tag) = "field" THEN _render_field(bf, elem, vm, st, cmds, off)
    ELSE IF Lower(elem.tag) = "barcode" THEN _render_barcode(bf, elem, vm, st, cmds, off)
    ELSE [exc |-> "none", st |-> st, cmds |-> cmds]

\* the one element of a set: the value of an expression, computed once
Only(S) == CHOOSE x \in S : TRUE

\* line 85: the loop over the children of a group; an exception ends it
RECURSIVE RenderChildren(_, _, _, _, _, _)
RenderChildren(bf, kids, vm, st, cmds, off) ==
    IF kids = <<>> THEN [exc |-> "none", st |-> st, cmds |-> cmds]
    ELSE Only({ IF r.exc # "none" THEN r
                ELSE RenderChildren(bf, Tail(kids), vm, r.st, r.cmds, off) :
                r \in {RenderChild(bf, Head(kids), vm, st, cmds, off)} })

\* lines 82-83
GroupOffset(g) ==
    <<_to_float(OrElse(g.offsetX, g.offsetx), 0), _to_float(OrElse(g.offsetY, g.offsety), 0)>>

\* line 81: the loop over the groups
RECURSIVE RenderGroups(_, _, _, _, _)
RenderGroups(bf, grps, vm, st, cmds) ==
    IF grps = <<>> THEN [exc |-> "none", st |-> st, cmds |-> cmds]
    ELSE Only({ IF r.exc # "none" THEN r
                ELSE RenderGroups(bf, Tail(grps), vm, r.st, r.cmds) :
                r \in {RenderChildren(bf, Head(grps).children, vm, st, cmds,
                                      GroupOffset(Head(grps).attrs))} })

\* JsonCommandEmitter.to_dict: the layout fields and the commands (the version
\* and the document are constants of the model and left out)
to_dict(lay, cmds) == [layout |-> lay, commands |-> cmds]

\* a render that goes on from the render state the previous call left
M_render_shared_state(tpl, vals) ==
    LET r == RenderGroups(tpl.base_font, tpl.groups, ValueMap(vals), state,
                          _emit_command(<<>>, "Setup", [name |-> "label"]))
    IN  IF r.exc # "none"
        THEN [exc |-> r.exc, st |-> r.st, cmds |-> r.cmds, env |-> None]
        ELSE LET cmds == emit(r.cmds, "PrintFeed", NoArgs)
             IN  [exc |-> "none", st |-> r.st, cmds |-> cmds,
                  env |-> to_dict(TemplateLayout, cmds)]

\* XmlCommandTemplate.render: the envelope returned or the exception raised,
\* with the render state and the emitter contents at that point
render(tpl, vals) ==
    LET r == RenderGroups(tpl.base_font, tpl.groups, ValueMap(vals), FreshState,
                          _emit_command(<<>>, "Setup", [name |-> "label"]))
    IN  IF r.exc # "none"
        THEN [exc |-> r.exc, st |-> r.st, cmds |-> r.cmds, env |-> None]
        ELSE LET cmds == emit(r.cmds, "PrintFeed", NoArgs)
             IN  [exc |-> "none", st |-> r.st, cmds |-> cmds,
                  env |-> to_dict(TemplateLayout, cmds)]

\* renders of a template whose fields carry texts to format
TextNext ==
    \/ \E vals \in ValueMaps : RenderBegin(vals)
    \/ \E g \in GroupAttrs : NextGroup(g)
    \/ \E elem \in TextElems : RenderField(elem)
    \/ EndGroup
    \/ RenderEnd

\* barcodes with a name of the value map, a name outside it, an empty name
\* and no name, each with a literal value, an empty one and none
BarcodeValueElems ==
    { [Elem("Barcode", None, None, None, None, None) EXCEPT !.name = n, !.value = v] :
        n \in {"NAME", "OTHER", "", None}, v \in {None, "", "lit"} }

\* value maps for the barcodes: NAME absent, None, empty or a text, and with or
\* without an entry under the empty key
BarcodeValueMaps ==
    { [k \in {"NAME", ""} |-> IF k = "NAME" THEN n ELSE e] :
        n \in {Missing, None, "", "World"}, e \in {Missing, "X"} }

\* renders of a template of barcodes
BarcodeNext ==
    \/ \E vals \in BarcodeValueMaps : RenderBegin(vals)
    \/ \E g \in GroupAttrs : NextGroup(g)
    \/ \E elem \in BarcodeValueElems : RenderBarcode(elem)
    \/ EndGroup
    \/ RenderEnd

\* ==== JsonCommandInterpreter and the drivers ================================

\* ---- JSON values of an envelope -------------------------------------------
\* t is the JSON type: "missing" (key absent), "null", "num", "str", "list"
JNum(n) == [t |-> "num", n |-> n, s |-> ""]
JStr(s) == [t |-> "str", n |-> 0, s |-> s]
JNull == [t |-> "null", n |-> 0, s |-> ""]
JMissing == [t |-> "missing", n |-> 0, s |-> ""]
JList == [t |-> "list", n |-> 0, s |-> ""]

\* data.get(key, default): the default replaces a missing key only
JGet(j, default) == IF j.t = "missing" THEN default ELSE j

\* j or 0.0
JOrZero(j) ==
    IF j.t \in {"missing", "null"} \/ (j.t \in {"num", "int", "bool"} /\ j.n = 0)
         \/ (j.t = "str" /\ j.s = "") \/ (j.t = "arr" /\ j.items = <<>>)
         \/ (j.t = "obj" /\ DOMAIN j.f = {})
    THEN JNum(0) ELSE j

\* float(j): the number, or the exception float raises
PyFloat(j) ==
    CASE j.t = "num" -> [exc |-> "none", v |-> j.n]
      [] j.t \in {"int", "bool"} -> [exc |-> "none", v |-> j.n * 10]
      [] j.t = "str" -> IF j.s \in DOMAIN NumStrings
                        THEN [exc |-> "none", v |-> NumStrings[j.s]]
                        ELSE [exc |-> "ValueError", v |-> 0]
      [] OTHER -> [exc |-> "TypeError", v |-> 0]

\* str(j) for the layout strings
PyStr(j) == IF j.t = "str" THEN j.s ELSE IF j.t = "null" THEN "None" ELSE "[]"

\* ---- number formatting ------------------------------------------------------
Digits == <<"0", "1", "2", "3", "4", "5", "6", "7", "8", "9">>

RECURSIVE NatStr(_)
NatStr(n) == IF n < 10 THEN Digits[n + 1] ELSE NatStr(n \div 10) \o Digits[(n % 10) + 1]

\* str(i) of a Python int
IntStr(i) == IF i < 0 THEN "-" \o NatStr(-i) ELSE NatStr(i)

\* f"{f:.1f}" of a float counting tenths
Fmt1(f) == IF f < 0 THEN "-" \o NatStr((-f) \div 10) \o "." \o Digits[((-f) % 10) + 1]
           ELSE NatStr(f \div 10) \o "." \o Digits[(f % 10) + 1]

\* ---- json.dumps and json.loads ------------------------------------------------
\* A Python value that JSON can represent is a scalar [t, n, s] with t one of
\* "null", "bool", "int", "num" (a float, n counts tenths), "str", or a list
\* [t |-> "arr", items], or a dict with string keys [t |-> "obj", f].
\* A JSON text is a sequence of pieces: a punctuation character, a run of
\* white space, a number part, or a run of ordinary characters of a string.
JInt(i) == [t |-> "int", n |-> i, s |-> ""]
JBool(b) == [t |-> "bool", n |-> IF b THEN 1 ELSE 0, s |-> ""]
Arr(items) == [t |-> "arr", items |-> items]
Obj(f) == [t |-> "obj", f |-> f]

\* the largest integer part a number of a JSON text has in the model
MaxNat == 99

\* the order in which dumps writes the keys the model uses (a dict keeps the
\* order of insertion; equality of dicts does not depend on it)
KeyOrder == <<"version", "commands", "name", "args", "units", "origin", "y_direction",
              "width", "height", "dpi", "x", "y", "text", "size", "note">>

\* the characters of a string that dumps has to escape, apart from the rest
StrPieces(str) ==
    CASE str = ""       -> <<>>
      [] str = "a\"b"   -> <<"a", "\"", "b">>
      [] str = "c\\d"   -> <<"c", "\\", "d">>
      [] OTHER          -> <<str>>

\* py_encode_basestring_ascii: a quote and a backslash get a backslash
RECURSIVE Escape(_)
Escape(ps) ==
    IF ps = <<>> THEN <<>>
    ELSE (IF Head(ps) \in {"\"", "\\"} THEN <<"\\", Head(ps)>> ELSE <<Head(ps)>>)
           \o Escape(Tail(ps))

\* float.__repr__ written without the fraction, as "%g" would
M_FloatRepr_short(f) ==
    IF f % 10 = 0
    THEN (IF f < 0 THEN <<"-">> ELSE <<>>) \o <<NatStr((IF f < 0 THEN -f ELSE f) \div 10)>>
    ELSE (IF f < 0 THEN <<"-">> ELSE <<>>)
           \o <<NatStr((IF f < 0 THEN -f ELSE f) \div 10), ".",
                Digits[((IF f < 0 THEN -f ELSE f) % 10) + 1]>>

\* float.__repr__ of a float counting tenths: 10.0, 2.5, -0.5
FloatRepr(f) ==
    (IF f < 0 THEN <<"-">> ELSE <<>>)
       \o <<NatStr((IF f < 0 THEN -f ELSE f) \div 10), ".",
            Digits[((IF f < 0 THEN -f ELSE f) % 10) + 1]>>

\* int.__repr__
IntRepr(i) == IF i < 0 THEN <<"-", NatStr(-i)>> ELSE <<NatStr(i)>>

\* the line break and the indentation of dumps(indent=2) at a nesting depth
NL(depth) == <<"\n">> \o [i \in 1..depth |-> "  "]

RECURSIVE dumps(_, _)
RECURSIVE DumpItems(_, _, _)
RECURSIVE DumpMembers(_, _, _, _)

DumpItems(items, i, depth) ==
    IF i > Len(items) THEN <<>>
    ELSE dumps(items[i], depth)
           \o (IF i < Len(items) THEN <<",">> \o NL(depth) ELSE <<>>)
           \o DumpItems(items, i + 1, depth)

DumpMembers(f, keys, i, depth) ==
    IF i > Len(keys) THEN <<>>
    ELSE <<"\"">> \o Escape(StrPieces(keys[i])) \o <<"\"", ":", " ">>
           \o dumps(f[keys[i]], depth)
           \o (IF i < Len(keys) THEN <<",">> \o NL(depth) ELSE <<>>)
           \o DumpMembers(f, keys, i + 1, depth)

\* json.dumps(v, indent=2), from nesting depth depth
dumps(v, depth) ==
    CASE v.t = "null" -> <<"null">>
      [] v.t = "bool" -> IF v.n = 1 THEN <<"true">> ELSE <<"false">>
      [] v.t = "int"  -> IntRepr(v.n)
      [] v.t = "num"  -> FloatRepr(v.n)
      [] v.t = "str"  -> <<"\"">> \o Escape(StrPieces(v.s)) \o <<"\"">>
      [] v.t = "arr"  ->
            IF v.items = <<>> THEN <<"[", "]">>
            ELSE <<"[">> \o NL(depth + 1) \o DumpItems(v.items, 1, depth + 1)
                   \o NL(depth) \o <<"]">>
      [] v.t = "obj"  ->
            LET keys == SelectSeq(KeyOrder, LAMBDA k : k \in DOMAIN v.f)
            IN  IF keys = <<>> THEN <<"{", "}">>
                ELSE <<"{">> \o NL(depth + 1) \o DumpMembers(v.f, keys, 1, depth + 1)
                       \o NL(depth) \o <<"}">>

\* white space between the tokens of a JSON text
WhiteSpace == {"\n", "  ", " "}

RECURSIVE Skip(_, _)
Skip(text, i) == IF i <= Len(text) /\ text[i] \in WhiteSpace THEN Skip(text, i + 1) ELSE i

NatTable == [n \in 0..MaxNat |-> NatStr(n)]
NatStrings == { NatTable[n] : n \in 0..MaxNat }

\* int(piece), the inverse of NatStr
ParseNat(piece) == CHOOSE n \in 0..MaxNat : NatTable[n] = piece

\* int(digit) of a fraction of one digit
ParseDigit(piece) == CHOOSE n \in 0..9 : Digits[n + 1] = piece

DigitStrings == { Digits[n] : n \in 1..10 }

ParseFail == [ok |-> FALSE, v |-> JNull, i |-> 0]

\* the scanner of a string, after its opening quote
RECURSIVE ParseString(_, _, _)
ParseString(text, i, acc) ==
    IF i > Len(text) THEN ParseFail
    ELSE IF text[i] = "\"" THEN [ok |-> TRUE, v |-> JStr(acc), i |-> i + 1]
    ELSE IF text[i] = "\\"
         THEN IF i + 1 <= Len(text) /\ text[i + 1] \in {"\"", "\\"}
              THEN ParseString(text, i + 2, acc \o text[i + 1])
              ELSE ParseFail
    ELSE ParseString(text, i + 1, acc \o text[i])

\* a number: an integer part, and a fraction that makes it a float
ParseNumber(text, i, sign) ==
    IF i > Len(text) \/ text[i] \notin NatStrings THEN ParseFail
    ELSE IF i + 2 <= Len(text) /\ text[i + 1] = "." /\ text[i + 2] \in DigitStrings
         THEN [ok |-> TRUE, i |-> i + 3,
               v |-> JNum(sign * (ParseNat(text[i]) * 10 + ParseDigit(text[i + 2])))]
         ELSE [ok |-> TRUE, i |-> i + 1, v |-> JInt(sign * ParseNat(text[i]))]

RECURSIVE ParseValue(_, _)
RECURSIVE ParseItems(_, _, _)
RECURSIVE ParseMembers(_, _, _)

\* the items of a list, after "[" or ","
ParseItems(text, i0, items) ==
    LET i == Skip(text, i0)
    IN  IF i > Len(text) THEN ParseFail
        ELSE IF text[i] = "]" /\ items = <<>> THEN [ok |-> TRUE, v |-> Arr(items), i |-> i + 1]
        ELSE LET r == ParseValue(text, i)
                 j == Skip(text, r.i)
             IN  IF ~r.ok \/ j > Len(text) THEN ParseFail
                 ELSE IF text[j] = "," THEN ParseItems(text, j + 1, Append(items, r.v))
                 ELSE IF text[j] = "]"
                      THEN [ok |-> TRUE, v |-> Arr(Append(items, r.v)), i |-> j + 1]
                 ELSE ParseFail

\* the members of a dict, after "{" or ","
ParseMembers(text, i0, f) ==
    LET i == Skip(text, i0)
    IN  IF i > Len(text) THEN ParseFail
        ELSE IF text[i] = "}" /\ DOMAIN f = {} THEN [ok |-> TRUE, v |-> Obj(f), i |-> i + 1]
        ELSE IF text[i] # "\"" THEN ParseFail
        ELSE LET k == ParseString(text, i + 1, "")
                 c == Skip(text, k.i)
             IN  IF ~k.ok \/ c > Len(text) \/ text[c] # ":" THEN ParseFail
                 ELSE LET r  == ParseValue(text, c + 1)
                          j  == Skip(text, r.i)
                          f1 == [x \in DOMAIN f \cup {k.v.s} |->
                                    IF x = k.v.s THEN r.v ELSE f[x]]
                      IN  IF ~r.ok \/ j > Len(text) THEN ParseFail
                          ELSE IF text[j] = "," THEN ParseMembers(text, j + 1, f1)
                          ELSE IF text[j] = "}" THEN [ok |-> TRUE, v |-> Obj(f1), i |-> j + 1]
                          ELSE ParseFail

ParseValue(text, i0) ==
    LET i == Skip(text, i0)
    IN  IF i > Len(text) THEN ParseFail
        ELSE CASE text[i] = "{"     -> ParseMembers(text, i + 1, EmptyDict)
               [] text[i] = "["     -> ParseItems(text, i + 1, <<>>)
               [] text[i] = "\""    -> ParseString(text, i + 1, "")
               [] text[i] = "null"  -> [ok |-> TRUE, v |-> JNull, i |-> i + 1]
               [] text[i] = "true"  -> [ok |-> TRUE, v |-> JBool(TRUE), i |-> i + 1]
               [] text[i] = "false" -> [ok |-> TRUE, v |-> JBool(FALSE), i |-> i + 1]
               [] text[i] = "-"     -> ParseNumber(text, i + 1, -1)
               [] OTHER             -> ParseNumber(text, i, 1)

\* json.loads: the value, or JSONDecodeError
loads(text) ==
    LET r == ParseValue(text, 1)
    IN  IF r.ok /\ Skip(text, r.i) = Len(text) + 1
        THEN [exc |-> "none", v |-> r.v]
        ELSE [exc |-> "JSONDecodeError", v |-> JNull]

\* ---- PrinterDriver (base class) -------------------------------------------

\* PrinterDriver.set_label_context; height is a float here (run passes floats)
\* set_label_context called without its dpi: the default of the parameter
M_set_label_context_default_dpi(d, height, units, dpi) ==
    [d EXCEPT !.label_height = height, !.units = units, !.dpi = 2030]

set_label_context(d, height, units, dpi) ==
    [d EXCEPT !.label_height = height, !.units = units, !.dpi = dpi]

\* configure_layout that forgets the origin and the direction of the y axis
M_configure_layout_no_origin(d, width, height, units, origin, y_direction) ==
    set_label_context([d EXCEPT !.label_width = width], height, units, d.dpi)

\* PrinterDriver.configure_layout
configure_layout(d, width, height, units, origin, y_direction) ==
    set_label_context([d EXCEPT !.label_width = width,
                                !.origin = origin,
                                !.y_direction = y_direction],
                      height, units, d.dpi)

\* PrinterDriver.to_device_coords (inherited by PD41Driver)
base_to_device_coords(d, x, y) == <<x, y>>

\* to_device_coords without the guard for a zero height
M_gdi_to_device_coords_no_guard(d, x, y) == <<x, d.label_height - y>>

\* GdiDriverStub.to_device_coords
gdi_to_device_coords(d, x, y) ==
    IF d.label_height = 0 THEN <<x, y>> ELSE <<x, d.label_height - y>>

\* driver.to_device_coords, by the class of the driver
to_device_coords(d, x, y) ==
    IF d.kind = "GDI" THEN gdi_to_device_coords(d, x, y)
    ELSE base_to_device_coords(d, x, y)

\* hasattr(driver, ...)
HasConfigureLayout(d) == d.kind \in {"PD41", "GDI"}
HasSetLabelContext(d) == d.kind \in {"PD41", "GDI"}
HasSession(d) == d.kind = "PD41"

\* the driver instances of the model, as their constructors leave them
PD41Driver(dry_run) ==
    [kind |-> "PD41", dry_run |-> dry_run, origin |-> "bottom-left", y_direction |-> "up",
     label_width |-> 0, label_height |-> 0, units |-> "mm", dpi |-> 2030,
     sock |-> None, sent |-> <<>>]

GdiDriverStub ==
    [kind |-> "GDI", dry_run |-> TRUE, origin |-> "top-left", y_direction |-> "down",
     label_width |-> 0, label_height |-> 600, units |-> "mm", dpi |-> 960,
     sock |-> None, sent |-> <<>>]

\* a driver object with the nine command methods and nothing else
StubDriver ==
    [kind |-> "Stub", dry_run |-> TRUE, origin |-> None, y_direction |-> None,
     label_width |-> NoneF, label_height |-> NoneF, units |-> None, dpi |-> NoneF,
     sock |-> None, sent |-> <<>>]

\* ---- JsonCommandInterpreter._configure_driver ------------------------------
\* _configure_driver that keeps the dpi of the driver when the dpi of the
\* envelope is not a number, instead of raising
M_configure_driver_lenient(d, dt) ==
    LET units       == PyStr(JGet(dt.units, JStr("mm")))
        origin      == PyStr(JGet(dt.origin, JStr("bottom-left")))
        y_direction == PyStr(JGet(dt.y_direction, JStr("up")))
        width       == PyFloat(JOrZero(JGet(dt.width, JNum(0))))
        height      == PyFloat(JOrZero(JGet(dt.height, JNum(0))))
        d1          == IF HasConfigureLayout(d)
                       THEN configure_layout(d, width.v, height.v, units, origin, y_direction)
                       ELSE d
        dpi_value   == dt.dpi
        dpi         == PyFloat(dpi_value)
        d2          == IF dpi_value.t \in {"missing", "null"} \/ dpi.exc # "none" THEN d1
                       ELSE [d1 EXCEPT !.dpi = dpi.v]
        d3          == IF HasSetLabelContext(d)
                       THEN set_label_context(d2, height.v, units, d2.dpi)
                       ELSE d2
    IN  IF width.exc # "none" THEN [exc |-> width.exc \o ":float", d |-> d]
        ELSE IF height.exc # "none" THEN [exc |-> height.exc \o ":float", d |-> d]
        ELSE [exc |-> "none", d |-> d3]

\* data is [width, height, units, origin, y_direction, dpi] of JSON values.
\* The result is the driver after the call and the exception raised, if any.
_configure_driver(d, dt) ==
    LET units       == PyStr(JGet(dt.units, JStr("mm")))
        origin      == PyStr(JGet(dt.origin, JStr("bottom-left")))
        y_direction == PyStr(JGet(dt.y_direction, JStr("up")))
        width       == PyFloat(JOrZero(JGet(dt.width, JNum(0))))
        height      == PyFloat(JOrZero(JGet(dt.height, JNum(0))))
        d1          == IF HasConfigureLayout(d)
                       THEN configure_layout(d, width.v, height.v, units, origin, y_direction)
                       ELSE d
        dpi_value   == dt.dpi
        dpi         == PyFloat(dpi_value)
        d2          == IF dpi_value.t \in {"missing", "null"} THEN d1
                       ELSE [d1 EXCEPT !.dpi = dpi.v]
        d3          == IF HasSetLabelContext(d)
                       THEN set_label_context(d2, height.v, units, d2.dpi)
                       ELSE d2
    IN  IF width.exc # "none" THEN [exc |-> width.exc \o ":float", d |-> d]
        ELSE IF height.exc # "none" THEN [exc |-> height.exc \o ":float", d |-> d]
        ELSE IF dpi_value.t \notin {"missing", "null"} /\ dpi.exc # "none"
             THEN [exc |-> "ValueError:dpi must be numeric", d |-> d1]
        ELSE [exc |-> "none", d |-> d3]

\* ---- the dispatch table (JsonCommandInterpreter.__init__) ------------------
CommandNames == {"Setup", "SetFont", "SetAlignment", "SetDirection", "MoveTo",
                 "DrawText", "DrawBarcode", "Comment", "PrintFeed"}

\* the table with the handlers of DrawText and Comment exchanged
M_dispatch_swapped ==
    [n \in CommandNames |->
        CASE n = "Setup"        -> "setup"
          [] n = "SetFont"      -> "set_font"
          [] n = "SetAlignment" -> "set_alignment"
          [] n = "SetDirection" -> "set_direction"
          [] n = "MoveTo"       -> "move_to"
          [] n = "DrawText"     -> "comment"
          [] n = "DrawBarcode"  -> "draw_barcode"
          [] n = "Comment"      -> "draw_text"
          [] n = "PrintFeed"    -> "print_feed"]

_dispatch ==
    [n \in CommandNames |->
        CASE n = "Setup"        -> "setup"
          [] n = "SetFont"      -> "set_font"
          [] n = "SetAlignment" -> "set_alignment"
          [] n = "SetDirection" -> "set_direction"
          [] n = "MoveTo"       -> "move_to"
          [] n = "DrawText"     -> "draw_text"
          [] n = "DrawBarcode"  -> "draw_barcode"
          [] n = "Comment"      -> "comment"
          [] n = "PrintFeed"    -> "print_feed"]

\* the keyword parameters of the driver methods (PrinterDriver, lines 63-105)
Params(method) ==
    CASE method = "setup"         -> {"name"}
      [] method = "set_font"      -> {"name", "size"}
      [] method = "set_alignment" -> {"align"}
      [] method = "set_direction" -> {"direction"}
      [] method = "move_to"       -> {"x", "y"}
      [] method = "draw_text"     -> {"text"}
      [] method = "draw_barcode"  -> {"value", "type", "width", "ratio", "height", "size"}
      [] method = "comment"       -> {"text"}
      [] method = "print_feed"    -> {}

\* ---- PD41Driver -------------------------------------------------------------

\* a replace that leaves the quotes of the text alone
M_DoubleQuotes_none(t) == t

\* text.replace('"', '""') on the texts of the model
DoubleQuotes(t) == IF t = "a\"b" THEN "a\"\"b" ELSE t

\* the FingerPrint lines of one command method (pd41_driver.py, lines 38-66)
PD41Lines(method, a) ==
    CASE method = "setup"         -> <<"SETUP \"" \o a.name \o "\"">>
      [] method = "set_font"      -> <<"FONT \"" \o a.name \o "\"," \o IntStr(PyInt(a.size))>>
      [] method = "set_alignment" -> <<"ALIGN " \o a.align>>
      [] method = "set_direction" -> <<"DIR " \o a.direction>>
      [] method = "move_to"       -> <<"PRPOS " \o IntStr(PyInt(a.x)) \o "," \o IntStr(PyInt(a.y))>>
      [] method = "draw_text"     -> <<"PRTXT \"" \o DoubleQuotes(a.text) \o "\"">>
      [] method = "draw_barcode"  ->
            <<"BARSET \"" \o a.type \o "\"," \o IntStr(a.width) \o "," \o IntStr(a.ratio)
                 \o "," \o IntStr(a.height) \o "," \o IntStr(a.size),
              "PRBAR \"" \o DoubleQuotes(a.value) \o "\"">>
      [] method = "comment"       -> <<"REM -- " \o a.text \o " --">>
      [] method = "print_feed"    -> <<"PRINTFEED">>

\* PD41Driver._send for each line in turn.  In dry run the line is appended to
\* sent without its CRLF; otherwise it goes to the socket with its CRLF, and
\* sendall fails on the line numbered failAt (0: no failure).
\* line.endswith("\r\n"): of the lines of the model, the one whose argument
\* carries a line end of its own
EndsWithCRLF(line) == line = "DIR 1\r\n"

\* line + "\r\n" unless it ends with one (lines 29-30)
WithCRLF(line) == IF EndsWithCRLF(line) THEN line ELSE line \o "\r\n"

\* line.strip() of a line with its CRLF: no other line of the model begins or
\* ends with white space
StripLine(line) == IF line = "DIR 1\r\n" THEN "DIR 1" ELSE line

RECURSIVE PD41Send(_, _, _, _)
PD41Send(d, out, lines, failAt) ==
    IF lines = <<>> THEN [exc |-> "none", d |-> d, out |-> out]
    ELSE IF d.dry_run
         THEN PD41Send([d EXCEPT !.sent = Append(@, StripLine(Head(lines)))], out,
                       Tail(lines), failAt)
         ELSE IF d.sock = None THEN [exc |-> "AssertionError", d |-> d, out |-> out]
         ELSE IF failAt = 1 THEN [exc |-> "OSError:send", d |-> d, out |-> out]
         ELSE PD41Send(d, Append(out, WithCRLF(Head(lines))), Tail(lines), failAt - 1)

\* ---- GdiDriverStub ----------------------------------------------------------
GdiLine(d, method, a) ==
    CASE method = "setup"         -> "[SETUP] " \o a.name
      [] method = "set_font"      -> "[FONT] " \o a.name \o " " \o Fmt1(a.size)
      [] method = "set_alignment" -> "[ALIGN] " \o a.align
      [] method = "set_direction" -> "[DIR] " \o a.direction
      [] method = "move_to"       ->
            LET dev == to_device_coords(d, a.x, a.y)
            IN  "[MOVE] " \o Fmt1(dev[1]) \o "," \o Fmt1(dev[2])
      [] method = "draw_text"     -> "[TEXT] " \o a.text
      [] method = "draw_barcode"  ->
            "[BARCODE] " \o a.type \o " '" \o a.value \o "' "
                \o IntStr(a.width) \o "x" \o IntStr(a.height)
      [] method = "comment"       -> "[COMMENT] " \o a.text
      [] method = "print_feed"    -> "[PRINTFEED]"

\* handler(**dict(args)): binding the keywords, then the body of the method
DriverCall(d, out, method, a, failAt) ==
    IF DOMAIN a # Params(method) THEN [exc |-> "TypeError:call", d |-> d, out |-> out]
    ELSE CASE d.kind = "PD41" -> PD41Send(d, out, PD41Lines(method, a), failAt)
           [] d.kind = "GDI"  -> [exc |-> "none", d |-> d, out |-> Append(out, GdiLine(d, method, a))]
           [] OTHER           -> [exc |-> "none", d |-> d, out |-> out]

\* ---- the inputs of a run -----------------------------------------------------

Entry(name, args) ==
    [mapping |-> TRUE, name |-> [t |-> "str", s |-> name], args |-> [t |-> "map", m |-> args]]

\* one well-formed entry for each command name
ValidEntries ==
    << Entry("Setup", [name |-> "label"]),
       Entry("SetFont", [name |-> "Mono", size |-> 100]),
       Entry("SetAlignment", [align |-> "left"]),
       Entry("SetDirection", [direction |-> "1"]),
       Entry("MoveTo", [x |-> 100, y |-> 200]),
       Entry("DrawText", [text |-> "a\"b"]),
       Entry("DrawBarcode", [value |-> "0101", type |-> "DATAMATRIX", width |-> 1,
                             ratio |-> 2, height |-> 3, size |-> 100]),
       Entry("Comment", [text |-> "note"]),
       Entry("PrintFeed", NoArgs) >>

\* an entry that is not a mapping, entries without a string name, entries whose
\* args are not a mapping, an unknown name, and entries the driver rejects
InvalidEntries ==
    << [mapping |-> FALSE, name |-> [t |-> "none", s |-> ""], args |-> [t |-> "missing", m |-> NoArgs]],
       [mapping |-> TRUE, name |-> [t |-> "none", s |-> ""], args |-> [t |-> "map", m |-> NoArgs]],
       [mapping |-> TRUE, name |-> [t |-> "int", s |-> ""], args |-> [t |-> "map", m |-> NoArgs]],
       [mapping |-> TRUE, name |-> [t |-> "str", s |-> "MoveTo"], args |-> [t |-> "list", m |-> NoArgs]],
       [mapping |-> TRUE, name |-> [t |-> "str", s |-> "Foo"], args |-> [t |-> "list", m |-> NoArgs]],
       Entry("Foo", NoArgs) >>

OtherEntries ==
    << [mapping |-> TRUE, name |-> [t |-> "str", s |-> "PrintFeed"], args |-> [t |-> "missing", m |-> NoArgs]],
       Entry("MoveTo", [x |-> 100]) >>

Range(seq) == { seq[i] : i \in DOMAIN seq }

AllEntries == Range(ValidEntries) \cup Range(InvalidEntries) \cup Range(OtherEntries)

FewEntries == { ValidEntries[5], ValidEntries[6], InvalidEntries[1], InvalidEntries[6] }

Layout(height, dpi, origin, y_direction) ==
    [width |-> JNum(600), height |-> height, units |-> JMissing,
     origin |-> origin, y_direction |-> y_direction, dpi |-> dpi,
     commands |-> "list"]

AllLayouts ==
    { Layout(h, dpi, o[1], o[2]) :
        h \in {JMissing, JNum(500), JStr("abc")},
        dpi \in {JMissing, JNull, JNum(3000), JStr("300"), JStr("abc")},
        o \in { <<JMissing, JMissing>>, <<JStr("top-left"), JStr("down")>> } }

FewLayouts ==
    { Layout(JNum(500), JMissing, JStr("bottom-left"), JStr("up")),
      Layout(JMissing, JStr("abc"), JMissing, JMissing) }

\* what data.get("commands", []) is: a list, missing, or a number
CommandsKinds == {"list", "missing", "num"}

\* the payload argument: a mapping, a JSON text, a Path of a JSON file, a
\* string that is neither JSON nor a readable file, an object of another type
PayloadKinds == {"mapping", "json", "path", "badstr", "other"}

\* JsonCommandInterpreter._coerce_payload: the exception it raises
_coerce_payload(pk) ==
    CASE pk = "badstr" -> "OSError:payload"
      [] pk = "other"  -> "TypeError:Unsupported payload type"
      [] OTHER         -> "none"

NoSession == [enters |-> 0, exits |-> 0]

\* ---- JsonCommandInterpreter.run, one action per step --------------------------

\* lines 200-204: coerce the payload, configure the driver, fetch the commands
RunBegin(pk, dt, ck, maxRuns) ==
    /\ ipc \in {"idle", "done", "failed"}
    /\ runs < maxRuns
    /\ runs' = runs + 1
    /\ UNCHANGED payload
    /\ commands_in' = <<>>
    /\ calls' = <<>>
    /\ output' = <<>>
    /\ session' = NoSession
    /\ LET pe == _coerce_payload(pk)
           r  == _configure_driver(drv, dt)
       IN  IF pe # "none"
           THEN /\ err' = pe /\ ipc' = "failed" /\ UNCHANGED <<drv, data>>
           ELSE /\ data' = [dt EXCEPT !.commands = ck]
                /\ drv' = r.d
                /\ IF r.exc # "none"
                   THEN err' = r.exc /\ ipc' = "failed"
                   ELSE IF ck = "num"
                   THEN err' = "TypeError:commands collection must be iterable" /\ ipc' = "failed"
                   ELSE err' = "none" /\ ipc' = "configured"
    /\ UNCHANGED <<rvars, xvars>>

\* line 207, PD41Driver.__enter__; connecting may fail in live mode
Enter(connected) ==
    /\ ipc = "configured"
    /\ HasSession(drv)
    /\ IF drv.dry_run
       THEN /\ connected
            /\ UNCHANGED <<drv, err>>
            /\ session' = [session EXCEPT !.enters = @ + 1]
            /\ ipc' = "executing"
       ELSE IF connected
            THEN /\ drv' = [drv EXCEPT !.sock = "socket"]
                 /\ session' = [session EXCEPT !.enters = @ + 1]
                 /\ ipc' = "executing"
                 /\ UNCHANGED err
            ELSE /\ err' = "OSError:connect"
                 /\ ipc' = "failed"
                 /\ UNCHANGED <<drv, session>>
    /\ UNCHANGED <<data, commands_in, calls, output, runs, payload>>
    /\ UNCHANGED <<rvars, xvars>>

\* line 210: a driver without __enter__/__exit__
ExecuteDirect ==
    /\ ipc = "configured"
    /\ ~HasSession(drv)
    /\ ipc' = "executing"
    /\ UNCHANGED <<drv, data, commands_in, err, calls, session, output, runs, payload>>
    /\ UNCHANGED <<rvars, xvars>>

\* _execute without the isinstance check of args (lines 220-221)
M_EntryError_no_args_check(entry) ==
    IF ~entry.mapping THEN "TypeError:command entries must be mappings"
    ELSE IF entry.name.t # "str" THEN "ValueError:command name must be a string"
    ELSE IF entry.name.s \notin DOMAIN _dispatch THEN "KeyError:Unsupported command"
    ELSE "none"

\* the exception _execute raises for an entry before calling the driver
EntryError(entry) ==
    IF ~entry.mapping THEN "TypeError:command entries must be mappings"
    ELSE IF entry.name.t # "str" THEN "ValueError:command name must be a string"
    ELSE IF entry.args.t \notin {"map", "missing"} THEN "TypeError:command args must be a mapping"
    ELSE IF entry.name.s \notin DOMAIN _dispatch THEN "KeyError:Unsupported command"
    ELSE "none"

\* _execute called without the with block: an exception skips __exit__
M_AfterRaise_no_exit == "failed"

\* where an exception in _execute leads: through __exit__ if there is a session
AfterRaise == IF HasSession(drv) THEN "exiting" ELSE "failed"

\* lines 213-226: one iteration of the loop of _execute
Dispatch(entry, failAt) ==
    /\ ipc = "executing"
    /\ data.commands = "list"
    /\ Len(commands_in) < MaxCmds
    /\ commands_in' = Append(commands_in, entry)
    /\ LET ee == EntryError(entry)
       IN  IF ee # "none"
           THEN /\ err' = ee
                /\ ipc' = AfterRaise
                /\ UNCHANGED <<drv, calls, output>>
           ELSE LET method == _dispatch[entry.name.s]
                    r      == DriverCall(drv, output, method, entry.args.m, failAt)
                IN  /\ drv' = r.d
                    /\ output' = r.out
                    /\ IF r.exc = "TypeError:call"
                       THEN calls' = calls
                       ELSE calls' = Append(calls, [method |-> method, args |-> entry.args.m])
                    /\ IF r.exc # "none"
                       THEN err' = r.exc /\ ipc' = AfterRaise
                       ELSE UNCHANGED <<err, ipc>>
    /\ UNCHANGED <<data, session, runs, payload>>
    /\ UNCHANGED <<rvars, xvars>>

\* the loop of _execute is exhausted
EndOfCommands ==
    /\ ipc = "executing"
    /\ ipc' = IF HasSession(drv) THEN "exiting" ELSE "done"
    /\ UNCHANGED <<drv, data, commands_in, err, calls, session, output, runs, payload>>
    /\ UNCHANGED <<rvars, xvars>>

\* an __exit__ that also empties the buffer of the driver
M_Exit_clears_sent ==
    /\ ipc = "exiting"
    /\ drv' = [drv EXCEPT !.sock = None, !.sent = <<>>]
    /\ session' = [session EXCEPT !.exits = @ + 1]
    /\ ipc' = IF err = "none" THEN "done" ELSE "failed"
    /\ UNCHANGED <<data, commands_in, err, calls, output, runs, payload>>
    /\ UNCHANGED <<rvars, xvars>>

\* leaving the with block: PD41Driver.__exit__, then the exception propagates
Exit ==
    /\ ipc = "exiting"
    /\ drv' = IF drv.sock # None THEN [drv EXCEPT !.sock = None] ELSE drv
    /\ session' = [session EXCEPT !.exits = @ + 1]
    /\ ipc' = IF err = "none" THEN "done" ELSE "failed"
    /\ UNCHANGED <<data, commands_in, err, calls, output, runs, payload>>
    /\ UNCHANGED <<rvars, xvars>>

Drivers == {PD41Driver(TRUE), PD41Driver(FALSE), GdiDriverStub, StubDriver}

RunInit ==
    /\ drv \in Drivers
    /\ ipc = "idle"
    /\ data = [Layout(JMissing, JMissing, JMissing, JMissing) EXCEPT !.commands = "missing"]
    /\ commands_in = <<>>
    /\ err = "none"
    /\ calls = <<>>
    /\ session = NoSession
    /\ output = <<>>
    /\ runs = 0
    /\ payload = None

RenderIdle ==
    /\ base_font = "Swiss"
    /\ groups = <<>>
    /\ rpc = "idle"
    /\ values = [k \in Keys |-> Missing]
    /\ state = FreshState
    /\ commands = <<>>
    /\ layout = [units |-> "mm", origin |-> "bottom-left", y_direction |-> "up"]
    /\ offset = <<0, 0>>

\* ---- the emitter, the registry and the client before anything used them -----

\* _TEMPLATE_FILES (registry.py, lines 13-16)
_TEMPLATE_FILES == {"scleral_v3", "scleral_v4"}

\* PrinterClient.__init__ (pd41.py, lines 28-33); wire is what went to the socket
PrinterClient(dry_run) ==
    [dry_run |-> dry_run, _sock |-> None, sent |-> <<>>,
     _font_name |-> None, _font_size |-> NoneF, wire |-> <<>>]

\* no to_json() text has been parsed
NoDoc == [exc |-> "unset", v |-> [t |-> "null", n |-> 0, s |-> ""]]

ClientIdle ==
    /\ returned = 0
    /\ json_doc = NoDoc
    /\ cache = EmptyDict
    /\ parses = [n \in _TEMPLATE_FILES |-> 0]
    /\ rendered = <<>>
    /\ client = PrinterClient(FALSE)

\* no record was handed to compute_fields
NoRecord == [k \in {} |-> ""]

FieldsIdle == record = NoRecord /\ fields = NoRecord

\* run_label_server_v2 after srv.listen(), before the first accept
ServerListening ==
    [pc |-> "accept", conn |-> 0, open |-> {}, made |-> 0, driver |-> 0,
     running |-> {}, path |-> "none", envelope |-> "none", log |-> <<>>,
     driver_name |-> "pd41", dry_run |-> TRUE]

ExtraIdle == ClientIdle /\ FieldsIdle /\ server = ServerListening

RunSteps ==
    \/ \E c \in BOOLEAN : Enter(c)
    \/ ExecuteDirect
    \/ EndOfCommands
    \/ Exit

\* many runs on one driver: every layout, a few entries
RunNext ==
    \/ \E pk \in PayloadKinds, dt \in AllLayouts, ck \in CommandsKinds :
          RunBegin(pk, dt, ck, MaxRuns)
    \/ \E e \in FewEntries, f \in 0..2 : Dispatch(e, f)
    \/ RunSteps

InitRun == RunInit /\ RenderIdle /\ ExtraIdle

SpecRun == InitRun /\ [][RunNext]_vars

\* one run on a fresh driver: every kind of entry, two layouts
DispatchNext ==
    \/ \E pk \in PayloadKinds, dt \in FewLayouts, ck \in CommandsKinds :
          RunBegin(pk, dt, ck, MaxDispatchRuns)
    \/ \E e \in AllEntries, f \in 0..2 : Dispatch(e, f)
    \/ RunSteps

SpecDispatch == InitRun /\ [][DispatchNext]_vars

InitRender == RenderInit /\ RunInit /\ drv = GdiDriverStub /\ ExtraIdle

SpecRender == InitRender /\ [][RenderNext]_vars

SpecText == InitRender /\ [][TextNext]_vars

SpecBarcode == InitRender /\ [][BarcodeNext]_vars

\* ---- printer_templates.registry ------------------------------------------------

Group(attrs, children) == [attrs |-> attrs, children |-> children]

OneGroup == [offsetX |-> "10", offsetx |-> None, offsetY |-> None, offsety |-> "12"]

\* what a template file may hold when it is parsed (the data files are not
\* part of the sources): fields that leave font, alignment and direction set,
\* two groups with a comment, a text with a placeholder
TemplateContents ==
    { [base_font |-> "Swiss",
       groups |-> << Group(OneGroup, << Elem("Field", "Mono", "10", "left", "1", None),
                                        Elem("Field", None, None, None, None, None),
                                        Elem("Barcode", None, None, "right", "3", None) >>) >>],
      [base_font |-> "",
       groups |-> << Group(OneGroup, << Elem("Field", None, None, "left", None, None) >>),
                     Group(OneGroup, << Elem(CommentTag, None, None, None, None, "note"),
                                        Elem("Field", None, "10", None, None, None) >>) >>],
      [base_font |-> "Swiss",
       groups |-> << Group(OneGroup, << Elem("Field", None, "12", None, None, "Hello {NAME}"),
                                        Elem("Field", None, None, None, None, "{0}") >>) >>] }

\* the names looked up: the registered ones and one that is not
LookupNames == _TEMPLATE_FILES \cup {"nolabel"}

\* XmlCommandTemplate(path): a new object, told from others by its id
XmlCommandTemplate(id, content) ==
    [id |-> id, base_font |-> content.base_font, groups |-> content.groups]

\* get_template under lru_cache(maxsize=None).  The key of the cache is the
\* call pattern: get_template(n) and get_template(name=n) have different keys
\* (kw tells them apart).  An exception is not cached.
get_template(c, name, kw, content, id) ==
    LET key == <<kw, name>>
    IN  IF key \in DOMAIN c
        THEN [exc |-> "none", cache |-> c, parsed |-> FALSE, tpl |-> c[key]]
        ELSE IF name \notin _TEMPLATE_FILES
        THEN [exc |-> "KeyError", cache |-> c, parsed |-> FALSE,
              tpl |-> XmlCommandTemplate(0, [base_font |-> "", groups |-> <<>>])]
        ELSE LET tpl == XmlCommandTemplate(id, content)
             IN  [exc |-> "none", parsed |-> TRUE, tpl |-> tpl,
                  cache |-> [k \in DOMAIN c \cup {key} |-> IF k = key THEN tpl ELSE c[k]]]

\* the number of templates constructed so far
RECURSIVE SumOver(_, _)
SumOver(f, S) == IF S = {} THEN 0
                 ELSE LET x == CHOOSE x \in S : TRUE IN f[x] + SumOver(f, S \ {x})

NextId == SumOver(parses, DOMAIN parses) + 1

NoValues == [k \in Keys |-> Missing]

CallRecord(fn, name, kw, vals, exc, id, env) ==
    [fn |-> fn, name |-> name, kw |-> kw, vals |-> vals, exc |-> exc, tpl |-> id, env |-> env]

NoEnvelope == to_dict(TemplateLayout, <<>>)

\* a caller invokes get_template(name) or get_template(name=name)
GetTemplate(name, kw, content) ==
    /\ Len(rendered) < MaxCalls
    /\ LET r == get_template(cache, name, kw, content, NextId)
       IN  /\ cache' = r.cache
           /\ parses' = IF r.parsed THEN [parses EXCEPT ![name] = @ + 1] ELSE parses
           /\ rendered' = Append(rendered,
                  CallRecord("get_template", name, kw, NoValues, r.exc, r.tpl.id, NoEnvelope))
    /\ UNCHANGED <<returned, json_doc, client, fvars>>
    /\ UNCHANGED <<rvars, ivars>>

\* render_template(name, values): get_template(name), then template.render(values)
RenderTemplate(name, vals, content) ==
    /\ Len(rendered) < MaxCalls
    /\ LET g == get_template(cache, name, FALSE, content, NextId)
           r == render(g.tpl, vals)
       IN  /\ cache' = g.cache
           /\ parses' = IF g.parsed THEN [parses EXCEPT ![name] = @ + 1] ELSE parses
           /\ IF g.exc # "none"
              THEN /\ rendered' = Append(rendered,
                         CallRecord("render_template", name, FALSE, vals, g.exc, 0, NoEnvelope))
                   /\ UNCHANGED rvars
              ELSE /\ rendered' = Append(rendered,
                         CallRecord("render_template", name, FALSE, vals, r.exc, g.tpl.id,
                                    IF r.exc = "none" THEN r.env ELSE NoEnvelope))
                   /\ base_font' = g.tpl.base_font
                   /\ groups' = g.tpl.groups
                   /\ values' = ValueMap(vals)
                   /\ state' = r.st
                   /\ commands' = r.cmds
                   /\ layout' = TemplateLayout
                   /\ offset' = IF g.tpl.groups = <<>> THEN <<0, 0>>
                                ELSE GroupOffset(g.tpl.groups[Len(g.tpl.groups)].attrs)
                   /\ rpc' = IF r.exc = "none" THEN "done" ELSE "raised"
    /\ UNCHANGED <<returned, json_doc, client, fvars>>
    /\ UNCHANGED ivars

RegistryNext ==
    \/ \E n \in LookupNames, kw \in BOOLEAN, c \in TemplateContents : GetTemplate(n, kw, c)
    \/ \E n \in LookupNames, vals \in ValueMaps, c \in TemplateContents :
          RenderTemplate(n, vals, c)

\* ---- JsonCommandEmitter used directly -------------------------------------------

\* lay.update(upd) of dicts held as records
DictUpdate(lay, upd) ==
    [k \in DOMAIN lay \cup DOMAIN upd |-> IF k \in DOMAIN upd THEN upd[k] ELSE lay[k]]

\* JsonCommandEmitter.set_layout: the layout after the call and the exception
\* raised.  width and height are keyword-only without default (JMissing: the
\* caller passes none); float() is applied before the update, and to dpi after.
set_layout(lay, width, height, units, origin, y_direction, dpi) ==
    LET w    == PyFloat(width)
        h    == PyFloat(height)
        lay1 == DictUpdate(lay, [width |-> w.v, height |-> h.v, units |-> units,
                                 origin |-> origin, y_direction |-> y_direction])
        d    == PyFloat(dpi)
    IN  IF width.t = "missing" \/ height.t = "missing"
        THEN [exc |-> "TypeError:missing keyword-only argument", layout |-> lay]
        ELSE IF w.exc # "none" THEN [exc |-> w.exc \o ":float", layout |-> lay]
        ELSE IF h.exc # "none" THEN [exc |-> h.exc \o ":float", layout |-> lay]
        ELSE IF dpi.t \in {"missing", "null"} THEN [exc |-> "none", layout |-> lay1]
        ELSE IF d.exc # "none" THEN [exc |-> d.exc \o ":float", layout |-> lay1]
        ELSE [exc |-> "none", layout |-> DictUpdate(lay1, [dpi |-> d.v])]

Canonical == <<"mm", "bottom-left", "up">>
TopDown == <<"in", "top-left", "down">>

\* the calls of set_layout: <<width, height, <<units, origin, y_direction>>, dpi>>.
\* Numbers of either type and a numeric string, with and without a dpi; a zero
\* width; a width or a height that is None, empty or not passed; a dpi that is
\* no number.
LayoutCalls ==
    { <<JNum(600), JNum(400), Canonical, JNull>>,
      <<JStr("60"), JInt(40), TopDown, JNum(960)>>,
      <<JInt(0), JNum(0), Canonical, JNull>>,
      <<JNull, JNum(400), TopDown, JNull>>,
      <<JNum(600), JNull, TopDown, JNull>>,
      <<JStr(""), JNum(400), TopDown, JNull>>,
      <<JMissing, JMissing, TopDown, JNull>>,
      <<JNum(400), JNum(600), TopDown, JStr("abc")>> }

\* a call of set_layout on the emitter, before its envelope is run; err keeps
\* the exception it raised
SetLayout(width, height, str, dpi) ==
    /\ runs = 0
    /\ LET r == set_layout(layout, width, height, str[1], str[2], str[3], dpi)
       IN  /\ layout' = r.layout
           /\ err' = r.exc
    /\ json_doc' = NoDoc
    /\ UNCHANGED <<base_font, groups, rpc, values, state, commands, offset>>
    /\ UNCHANGED <<drv, ipc, data, commands_in, calls, session, output, runs, payload>>
    /\ UNCHANGED <<returned, cache, parses, rendered, client, fvars>>

\* the names and the keyword arguments callers hand to emit: two commands of
\* the protocol, a name outside it, a command with an argument it does not take
EmitCalls ==
    { <<"MoveTo", [x |-> JNum(100), y |-> JInt(20)]>>,
      <<"DrawText", [text |-> JStr("a\"b")]>>,
      <<"Foo", EmptyDict>>,
      <<"DrawText", [text |-> JStr("c\\d"), size |-> JNull]>> }

\* a call of emit; returned is the entry it returns, the one it stored
Emit(name, args) ==
    /\ runs = 0
    /\ Len(commands) < MaxEmits
    /\ commands' = emit(commands, name, args)
    /\ returned' = Len(commands')
    /\ err' = "none"
    /\ json_doc' = NoDoc
    /\ UNCHANGED <<base_font, groups, rpc, values, state, layout, offset>>
    /\ UNCHANGED <<drv, ipc, data, commands_in, calls, session, output, runs, payload>>
    /\ UNCHANGED <<cache, parses, rendered, client, fvars>>

\* the caller updates the args of the entry emit returned (as _emit_command does)
MutateReturned(k, v) ==
    /\ runs = 0
    /\ returned \in 1..Len(commands)
    /\ commands' = [commands EXCEPT ![returned].args = DictUpdate(@, [x \in {k} |-> v])]
    /\ json_doc' = NoDoc
    /\ UNCHANGED <<base_font, groups, rpc, values, state, layout, offset>>
    /\ UNCHANGED ivars
    /\ UNCHANGED <<returned, cache, parses, rendered, client, fvars>>

\* to_dict() of an emitter as a JSON-representable value: version, commands,
\* and the keys of the layout (width, height and dpi are floats)
EnvelopeTree(lay, cmds) ==
    Obj(DictUpdate(
          [k \in DOMAIN lay |-> IF k \in {"width", "height", "dpi"}
                                THEN JNum(lay[k]) ELSE JStr(lay[k])],
          [version  |-> JStr("1.0"),
           commands |-> Arr([i \in 1..Len(cmds) |->
                               Obj([name |-> JStr(cmds[i].name),
                                    args |-> Obj(cmds[i].args)])])]))

\* JsonCommandEmitter.to_json
to_json(lay, cmds) == dumps(EnvelopeTree(lay, cmds), 0)

\* a call of to_json(), and json.loads of its text
ToJson ==
    /\ json_doc = NoDoc
    /\ json_doc' = loads(to_json(layout, commands))
    /\ UNCHANGED <<returned, cache, parses, rendered, client, fvars>>
    /\ UNCHANGED rvars
    /\ UNCHANGED ivars

\* ---- JsonCommandInterpreter.run as one call, on a payload with its content ------

\* data.get(k), JMissing when the key is absent
TreeGet(tree, k) == IF k \in DOMAIN tree.f THEN tree.f[k] ELSE JMissing

\* the layout fields of a payload, as _configure_driver reads them
LayoutOfTree(tree) ==
    [width |-> TreeGet(tree, "width"), height |-> TreeGet(tree, "height"),
     units |-> TreeGet(tree, "units"), origin |-> TreeGet(tree, "origin"),
     y_direction |-> TreeGet(tree, "y_direction"), dpi |-> TreeGet(tree, "dpi"),
     commands |-> LET c == TreeGet(tree, "commands")
                  IN  IF c.t = "missing" THEN "missing"
                      ELSE IF c.t \in {"arr", "obj", "str"} THEN "list" ELSE "num"]

\* a Python argument as the driver methods of the model take it: a string, or
\* a number counting tenths (an int i is the number i.0)
Raw(v) == CASE v.t = "str"  -> v.s
            [] v.t = "num"  -> v.n
            [] v.t \in {"int", "bool"} -> v.n * 10
            [] OTHER        -> None

\* an entry of the commands list, as _execute looks at it
EntryOfTree(v) ==
    IF v.t # "obj"
    THEN [mapping |-> FALSE, name |-> [t |-> "none", s |-> ""],
          args |-> [t |-> "missing", m |-> NoArgs]]
    ELSE LET n == TreeGet(v, "name")
             a == TreeGet(v, "args")
         IN  [mapping |-> TRUE,
              name |-> IF n.t = "str" THEN [t |-> "str", s |-> n.s]
                       ELSE IF n.t = "missing" THEN [t |-> "none", s |-> ""]
                       ELSE [t |-> "int", s |-> ""],
              args |-> IF a.t = "missing" THEN [t |-> "missing", m |-> NoArgs]
                       ELSE IF a.t = "obj"
                            THEN [t |-> "map", m |-> [k \in DOMAIN a.f |-> Raw(a.f[k])]]
                       ELSE [t |-> "list", m |-> NoArgs]]

\* the payloads: a mapping, a str holding a JSON text or a file name, a Path
\* of a file with a text, None
Payload(kind, tree, text) == [kind |-> kind, tree |-> tree, text |-> text]

\* the envelopes the files and the payloads hold: a layout with two commands,
\* another layout with a command outside the protocol, an empty mapping
EnvelopeA ==
    EnvelopeTree([width |-> 600, height |-> 400, units |-> "mm",
                  origin |-> "bottom-left", y_direction |-> "up"],
                 <<Cmd("MoveTo", [x |-> JNum(100), y |-> JInt(20)]),
                   Cmd("DrawText", [text |-> JStr("a\"b")])>>)
EnvelopeB ==
    EnvelopeTree([width |-> 400, height |-> 250, units |-> "in",
                  origin |-> "top-left", y_direction |-> "down", dpi |-> 960],
                 <<Cmd("Foo", EmptyDict)>>)
EnvelopeC == Obj(EmptyDict)

\* Path(name).read_text(encoding="utf-8"): two files hold a JSON text, one
\* holds other text, and no other file exists
read_text(name) ==
    CASE name = <<"a.json">>    -> [exc |-> "none", text |-> dumps(EnvelopeA, 0)]
      [] name = <<"b.json">>    -> [exc |-> "none", text |-> dumps(EnvelopeB, 0)]
      [] name = <<"notes.txt">> -> [exc |-> "none", text |-> <<"to", " ", "do">>]
      [] OTHER                  -> [exc |-> "OSError:payload", text |-> <<>>]

\* _coerce_payload that takes a string it cannot parse for an empty envelope
M_coerce_payload_lenient(p) ==
    LET r == loads(p.text)
        f == read_text(p.text)
        g == loads(f.text)
    IN  CASE p.kind = "mapping" -> [exc |-> "none", data |-> p.tree]
          [] p.kind = "path" ->
                IF f.exc # "none" THEN [exc |-> f.exc, data |-> JNull]
                ELSE [exc |-> g.exc, data |-> g.v]
          [] p.kind = "json" ->
                IF r.exc = "none" THEN [exc |-> "none", data |-> r.v]
                ELSE [exc |-> "none", data |-> Obj(EmptyDict)]
          [] OTHER -> [exc |-> "TypeError:Unsupported payload type", data |-> JNull]

\* JsonCommandInterpreter._coerce_payload on a payload with its content: the
\* text of a Path is the name of the file, and a str that is no JSON text is
\* taken for the name of a file
_coerce_payload_value(p) ==
    LET r == loads(p.text)
        f == read_text(p.text)
        g == loads(f.text)
    IN  CASE p.kind = "mapping" -> [exc |-> "none", data |-> p.tree]
          [] p.kind = "path" ->
                IF f.exc # "none" THEN [exc |-> f.exc, data |-> JNull]
                ELSE [exc |-> g.exc, data |-> g.v]
          [] p.kind = "json" ->
                IF r.exc = "none" THEN [exc |-> "none", data |-> r.v]
                ELSE IF f.exc # "none" THEN [exc |-> f.exc, data |-> JNull]
                ELSE [exc |-> g.exc, data |-> g.v]
          [] OTHER -> [exc |-> "TypeError:Unsupported payload type", data |-> JNull]

\* lines 222-226: the handler of one entry called with its args
ExecuteEntry(d, out, entry, cs) ==
    LET method == _dispatch[entry.name.s]
        r      == DriverCall(d, out, method, entry.args.m, 0)
    IN  [exc |-> r.exc, d |-> r.d, out |-> r.out,
         calls |-> IF r.exc = "TypeError:call" THEN cs
                   ELSE Append(cs, [method |-> method, args |-> entry.args.m])]

\* JsonCommandInterpreter._execute on a whole list (no transmission failure)
RECURSIVE _execute(_, _, _, _)
_execute(d, out, entries, cs) ==
    IF entries = <<>> THEN [exc |-> "none", d |-> d, out |-> out, calls |-> cs]
    ELSE LET entry == EntryOfTree(Head(entries))
             ee    == EntryError(entry)
         IN  IF ee # "none" THEN [exc |-> ee, d |-> d, out |-> out, calls |-> cs]
             ELSE Only({ IF x.exc # "none" THEN x
                         ELSE _execute(x.d, x.out, Tail(entries), x.calls) :
                         x \in { ExecuteEntry(d, out, entry, cs) } })

\* run raising before any command is executed
RunFailed(e, d, ses) == [exc |-> e, d |-> d, out |-> <<>>, calls |-> <<>>, session |-> ses]

\* data.get("commands", [])
EntriesOf(doc) ==
    IF TreeGet(doc, "commands").t = "arr" THEN TreeGet(doc, "commands").items ELSE <<>>

\* PD41Driver.__enter__ in live mode
Opened(d) == IF HasSession(d) /\ ~d.dry_run THEN [d EXCEPT !.sock = "socket"] ELSE d

\* lines 206-210, after _execute returned or raised x: the with block is left
RunExecuted(d, x) ==
    [exc |-> x.exc, out |-> x.out, calls |-> x.calls,
     d |-> IF HasSession(d) THEN [x.d EXCEPT !.sock = None] ELSE x.d,
     session |-> IF HasSession(d) THEN [enters |-> 1, exits |-> 1] ELSE NoSession]

\* lines 202-210, after _configure_driver returned or raised r
RunConfigured(r, doc, connected) ==
    IF r.exc # "none" THEN RunFailed(r.exc, r.d, NoSession)
    ELSE IF TreeGet(doc, "commands").t \notin {"missing", "arr", "obj", "str"}
    THEN RunFailed("TypeError:commands collection must be iterable", r.d, NoSession)
    ELSE IF HasSession(r.d) /\ ~r.d.dry_run /\ ~connected
    THEN RunFailed("OSError:connect", r.d, NoSession)
    ELSE RunExecuted(r.d, _execute(Opened(r.d), <<>>, EntriesOf(doc), <<>>))

\* lines 201-210, after _coerce_payload returned or raised c
RunCoerced(d, c, connected) ==
    IF c.exc # "none" THEN RunFailed(c.exc, d, NoSession)
    ELSE IF c.data.t # "obj" THEN RunFailed("AttributeError:get", d, NoSession)
    ELSE RunConfigured(_configure_driver(d, LayoutOfTree(c.data)), c.data, connected)

\* JsonCommandInterpreter.run: what it raises and what it did to the driver
run(d, p, connected) == RunCoerced(d, _coerce_payload_value(p), connected)

\* run on the envelope of the emitter, handed over as to_dict() or as to_json()
RunEmitted(pk, connected) ==
    /\ json_doc # NoDoc
    /\ runs < MaxEmitterRuns
    /\ LET tree == EnvelopeTree(layout, commands)
           r    == run(drv, Payload(pk, tree, to_json(layout, commands)), connected)
       IN  /\ drv' = r.d
           /\ err' = r.exc
           /\ calls' = r.calls
           /\ output' = r.out
           /\ session' = r.session
           /\ ipc' = IF r.exc = "none" THEN "done" ELSE "failed"
           /\ data' = LayoutOfTree(tree)
           /\ commands_in' = [i \in 1..Len(commands) |-> EntryOfTree(tree.f.commands.items[i])]
    /\ runs' = runs + 1
    /\ payload' = pk
    /\ UNCHANGED rvars
    /\ UNCHANGED xvars

\* the payloads handed to run: a mapping, a str with a JSON text, a Path and a
\* str naming a file with a JSON text; a str and a Path naming no file, a str
\* naming a file with other text, a str with a JSON text that is no mapping,
\* an object of another type
Payloads ==
    { Payload("mapping", EnvelopeA, <<>>),
      Payload("mapping", EnvelopeB, <<>>),
      Payload("mapping", EnvelopeC, <<>>),
      Payload("json", JNull, dumps(EnvelopeA, 0)),
      Payload("json", JNull, dumps(EnvelopeB, 0)),
      Payload("path", JNull, <<"a.json">>),
      Payload("path", JNull, <<"b.json">>),
      Payload("json", JNull, <<"a.json">>),
      Payload("json", JNull, <<"nofile">>),
      Payload("path", JNull, <<"nofile">>),
      Payload("json", JNull, <<"notes.txt">>),
      Payload("json", JNull, <<"[", "]">>),
      Payload("other", JNull, <<>>) }

\* a call of run with a payload; output and the driver go on from the calls
\* before
RunPayload(p, connected) ==
    /\ runs < MaxRuns
    /\ runs' = runs + 1
    /\ payload' = p.kind
    /\ LET c == _coerce_payload_value(p)
           r == run(drv, p, connected)
       IN  /\ drv' = r.d
           /\ err' = r.exc
           /\ calls' = r.calls
           /\ output' = output \o r.out
           /\ session' = r.session
           /\ ipc' = IF r.exc = "none" THEN "done" ELSE "failed"
           /\ IF c.exc = "none" /\ c.data.t = "obj"
              THEN /\ data' = LayoutOfTree(c.data)
                   /\ commands_in' = [i \in 1..Len(EntriesOf(c.data)) |->
                                        EntryOfTree(EntriesOf(c.data)[i])]
              ELSE UNCHANGED <<data, commands_in>>
    /\ UNCHANGED rvars
    /\ UNCHANGED xvars

PayloadNext == \E p \in Payloads, c \in BOOLEAN : RunPayload(p, c)

InitPayload == InitRun /\ drv \in {PD41Driver(TRUE), PD41Driver(FALSE), GdiDriverStub}

SpecPayload == InitPayload /\ [][PayloadNext]_vars

\* ---- the driver and the client called directly, in and out of a session -------

\* PrinterClient.__enter__: the font tracking is reset, and a live client
\* connects
client_enter(c, connected) ==
    LET c1 == [c EXCEPT !._font_name = None, !._font_size = NoneF]
    IN  IF c.dry_run THEN [exc |-> "none", c |-> c1]
        ELSE IF connected THEN [exc |-> "none", c |-> [c1 EXCEPT !._sock = "socket"]]
        ELSE [exc |-> "OSError:connect", c |-> c1]

\* PrinterClient.__exit__
client_exit(c) == [c EXCEPT !._sock = None]

\* PrinterClient.send without the test of the socket
M_send_unchecked(c, line) ==
    IF line = "" THEN [exc |-> "none", c |-> c]
    ELSE IF c.dry_run THEN [exc |-> "none", c |-> [c EXCEPT !.sent = Append(@, line)]]
    ELSE [exc |-> "none", c |-> [c EXCEPT !.wire = Append(@, line \o "\r\n")]]

\* PrinterClient.send; the lines of the model carry no line end of their own
send(c, line) ==
    IF line = "" THEN [exc |-> "none", c |-> c]
    ELSE IF c.dry_run THEN [exc |-> "none", c |-> [c EXCEPT !.sent = Append(@, line)]]
    ELSE IF c._sock = None
         THEN [exc |-> "RuntimeError:PrinterClient not connected", c |-> c]
    ELSE [exc |-> "none", c |-> [c EXCEPT !.wire = Append(@, line \o "\r\n")]]

\* PrinterClient.font: nothing is sent for the font already selected
font(c, name, size) ==
    IF c._font_name = name /\ c._font_size = size THEN [exc |-> "none", c |-> c]
    ELSE send([c EXCEPT !._font_name = name, !._font_size = size],
              "FONT \"" \o name \o "\"," \o IntStr(size))

\* the lines callers hand to send
ClientLines == {"", "PRINTFEED", "DIR 1"}

\* with driver: the session of a PD41Driver is entered, once
DriverEnter(connected) ==
    /\ HasSession(drv)
    /\ session = NoSession
    /\ IF drv.dry_run \/ connected
       THEN /\ drv' = Opened(drv)
            /\ session' = [session EXCEPT !.enters = @ + 1]
            /\ err' = "none"
       ELSE /\ err' = "OSError:connect"
            /\ UNCHANGED <<drv, session>>
    /\ UNCHANGED <<ipc, data, commands_in, calls, output, runs, payload>>
    /\ UNCHANGED <<rvars, xvars>>

\* PD41Driver.__exit__
DriverExit ==
    /\ session = [enters |-> 1, exits |-> 0]
    /\ drv' = [drv EXCEPT !.sock = None]
    /\ session' = [session EXCEPT !.exits = @ + 1]
    /\ UNCHANGED <<ipc, data, commands_in, err, calls, output, runs, payload>>
    /\ UNCHANGED <<rvars, xvars>>

\* a command method of the driver called by the program itself; output is
\* what reached the socket
DriverMethod(e) ==
    /\ Len(calls) < MaxDirect
    /\ LET method == _dispatch[e.name.s]
           r      == DriverCall(drv, output, method, e.args.m, 0)
       IN  /\ drv' = r.d
           /\ output' = r.out
           /\ err' = r.exc
           /\ calls' = Append(calls, [method |-> method, args |-> e.args.m])
    /\ UNCHANGED <<ipc, data, commands_in, session, runs, payload>>
    /\ UNCHANGED <<rvars, xvars>>

\* with client
ClientEnter(connected) ==
    /\ client._sock = None
    /\ client' = client_enter(client, connected).c
    /\ err' = client_enter(client, connected).exc
    /\ UNCHANGED <<returned, json_doc, cache, parses, rendered, fvars>>
    /\ UNCHANGED <<drv, ipc, data, commands_in, calls, session, output, runs, payload>>
    /\ UNCHANGED rvars

ClientExit ==
    /\ client._sock # None
    /\ client' = client_exit(client)
    /\ UNCHANGED <<returned, json_doc, cache, parses, rendered, fvars>>
    /\ UNCHANGED ivars
    /\ UNCHANGED rvars

\* client.send(line)
ClientSend(line) ==
    /\ Len(calls) < MaxDirect
    /\ client' = send(client, line).c
    /\ err' = send(client, line).exc
    /\ calls' = Append(calls, [method |-> "send", args |-> [line |-> line]])
    /\ UNCHANGED <<returned, json_doc, cache, parses, rendered, fvars>>
    /\ UNCHANGED <<drv, ipc, data, commands_in, session, output, runs, payload>>
    /\ UNCHANGED rvars

\* client.font(name, size)
ClientFont(name, size) ==
    /\ Len(calls) < MaxDirect
    /\ client' = font(client, name, size).c
    /\ err' = font(client, name, size).exc
    /\ calls' = Append(calls, [method |-> "font", args |-> [name |-> name, size |-> size]])
    /\ UNCHANGED <<returned, json_doc, cache, parses, rendered, fvars>>
    /\ UNCHANGED <<drv, ipc, data, commands_in, session, output, runs, payload>>
    /\ UNCHANGED rvars

\* the calls the program makes on the driver: the nine methods, a barcode
\* whose value holds a quote, a direction that ends with a line end
DirectEntries ==
    Range(ValidEntries)
      \cup { Entry("DrawBarcode", [value |-> "a\"b", type |-> "EAN13", width |-> 1,
                                   ratio |-> 2, height |-> 3, size |-> 100]),
             Entry("SetDirection", [direction |-> "1\r\n"]) }

DriverNext ==
    \/ \E c \in BOOLEAN : DriverEnter(c)
    \/ DriverExit
    \/ \E e \in DirectEntries : DriverMethod(e)
    \/ \E c \in BOOLEAN : ClientEnter(c)
    \/ ClientExit
    \/ \E line \in ClientLines : ClientSend(line)
    \/ ClientFont("Swiss", 8)

InitDriver == InitRun /\ drv \in {PD41Driver(TRUE), PD41Driver(FALSE)}

SpecDriver == InitDriver /\ [][DriverNext]_vars

\* an envelope is built: every call of set_layout, emit, updates of the entry
\* emit returned
BuildNext ==
    \/ \E c \in LayoutCalls : SetLayout(c[1], c[2], c[3], c[4])
    \/ \E c \in EmitCalls : Emit(c[1], c[2])
    \/ \E v \in {JNull, JInt(7)} : MutateReturned("note", v)

\* the calls of set_layout that succeed with a width and a height
FewLayoutCalls ==
    { <<JNum(600), JNum(400), Canonical, JNull>>,
      <<JStr("60"), JInt(40), TopDown, JNum(960)>> }

\* an envelope is built, serialised and run
EmitterNext ==
    \/ \E c \in FewLayoutCalls : SetLayout(c[1], c[2], c[3], c[4])
    \/ \E c \in EmitCalls : Emit(c[1], c[2])
    \/ ToJson
    \/ \E pk \in {"mapping", "json"}, c \in BOOLEAN : RunEmitted(pk, c)

InitEmitter == InitRun /\ drv \in {PD41Driver(TRUE), GdiDriverStub}

SpecEmitter == InitEmitter /\ [][EmitterNext]_vars

InitBuild == InitRun /\ drv = GdiDriverStub

SpecBuild == InitBuild /\ [][BuildNext]_vars

InitRegistry == InitRun /\ drv = GdiDriverStub

SpecRegistry == InitRegistry /\ [][RegistryNext]_vars

\* ==== Properties ==============================================================

IsSet(c) == c.name \in {"SetFont", "SetAlignment", "SetDirection"}

\* the commands a step appended
NewCommands == SubSeq(commands', Len(commands) + 1, Len(commands'))

\* the child a step read, when it read one
ReadsChild == Len(groups') = Len(groups) /\ groups' # groups
ChildRead == LET g == groups'[Len(groups')] IN g.children[Len(g.children)]

\* the latest command of the given name before position i, or 0
RECURSIVE PrevOf(_, _, _)
PrevOf(cmds, name, i) ==
    IF i <= 1 THEN 0
    ELSE IF cmds[i - 1].name = name THEN i - 1 ELSE PrevOf(cmds, name, i - 1)

\* no Set* command repeats the value of the previous command of its kind
NoRedundantSet(cmds) ==
    \A i \in 1..Len(cmds) :
        IsSet(cmds[i]) =>
            LET p == PrevOf(cmds, cmds[i].name, i)
            IN  p # 0 => cmds[p].args # cmds[i].args

\* C1: a render step emits SetFont / SetAlignment / SetDirection only with a
\* value that differs from the render state before the step, the state holds
\* the emitted value after it, and so no Set* command in the list repeats the
\* value of the previous one of its kind (none between two equal fields).
C1_Step ==
    /\ \A i \in 1..Len(NewCommands) :
          LET c == NewCommands[i]
          IN  /\ c.name = "SetFont" =>
                    /\ (c.args.name # state.font \/ c.args.size # state.size)
                    /\ state'.font = c.args.name /\ state'.size = c.args.size
              /\ c.name = "SetAlignment" =>
                    /\ c.args.align # state.align
                    /\ state'.align = c.args.align
              /\ c.name = "SetDirection" =>
                    /\ c.args.direction # state.direction
                    /\ state'.direction = c.args.direction
    /\ (ReadsChild /\ ChildRead.tag = "Field" /\ rpc' # "raised"
          /\ FieldFont(base_font, ChildRead) = state.font
          /\ FieldSize(ChildRead, state) = state.size
          /\ ChildRead.align \in {None, state.align}
          /\ ChildRead.dir \in {None, state.direction})
       => (Len(NewCommands) = 2 /\ NewCommands[1].name = "MoveTo")
    /\ NoRedundantSet(commands')

C1_StateDiff == [][C1_Step]_vars

\* two consecutive fields with the same explicit font and size, one SetFont
C1_Witness ==
    /\ rpc = "children"
    /\ Len(groups) = 1 /\ Len(groups[1].children) = 2
    /\ \A i \in 1..2 : /\ groups[1].children[i].tag = "Field"
                       /\ groups[1].children[i].font = "Mono"
                       /\ groups[1].children[i].size = "10"
    /\ Len(commands) = 6
    /\ commands[2].name = "SetFont"
    /\ commands[4].name = "DrawText" /\ commands[5].name = "MoveTo"

\* C2: the command list render returns starts with Setup and ends with PrintFeed
C2_SetupFirstPrintFeedLast ==
    /\ rpc # "idle" => (Len(commands) >= 1 /\ commands[1].name = "Setup")
    /\ rpc = "done" => (Len(commands) >= 2 /\ commands[Len(commands)].name = "PrintFeed")
    /\ \A i \in 2..Len(commands) : commands[i].name # "Setup"
    /\ \A i \in 1..(Len(commands) - 1) : commands[i].name # "PrintFeed"

C2_Witness ==
    /\ rpc = "done" /\ NChildren = 2
    /\ commands[1].name = "Setup" /\ commands[Len(commands)].name = "PrintFeed"
    /\ Len(commands) > 4

C2_WitnessEmpty == rpc = "done" /\ groups = <<>> /\ Len(commands) = 2

\* C3: a field without a font attribute, rendered after some field has emitted
\* SetFont with font F, keeps F: the step leaves the font of the render state as
\* it is and emits no SetFont with another font name.
C3_Step ==
    (ReadsChild /\ ChildRead.tag = "Field" /\ ChildRead.font = None /\ state.font # None)
    => /\ state'.font = state.font
       /\ \A i \in 1..Len(NewCommands) :
             NewCommands[i].name = "SetFont" => NewCommands[i].args.name = state.font

C3_FontInherited == [][C3_Step]_vars

\* the descriptors of a template that draw, in document order
RECURSIVE Drawing(_)
Drawing(grps) ==
    IF grps = <<>> THEN <<>>
    ELSE Drawing(SubSeq(grps, 1, Len(grps) - 1))
           \o SelectSeq(grps[Len(grps)].children, LAMBDA e : e.tag \in {"Field", "Barcode"})

IsDraw(c) == c.name \in {"DrawText", "DrawBarcode"}

\* the position the claims give a descriptor: the offsets of its group (either
\* spelling of the attribute) plus its own x and y
Position(g, e) ==
    << NumStrings[IF g.offsetX # None THEN g.offsetX ELSE g.offsetx] + NumStrings[e.x],
       NumStrings[IF g.offsetY # None THEN g.offsetY ELSE g.offsety] + NumStrings[e.y] >>

\* C11: a field step appends Set* commands and then exactly one MoveTo at
\* offset + local position followed at once by exactly one DrawText, it keeps
\* every earlier command, the draw commands of the list are those of the
\* descriptors read so far in document order, and every DrawText is
\* immediately preceded by a MoveTo.
C11_Step ==
    /\ (ReadsChild /\ ChildRead.tag = "Field" /\ rpc' # "raised") =>
          LET n   == Len(NewCommands)
              pos == Position(groups'[Len(groups')].attrs, ChildRead)
          IN  /\ n >= 2
              /\ \A i \in 1..(n - 2) : IsSet(NewCommands[i])
              /\ NewCommands[n - 1] = Cmd("MoveTo", [x |-> pos[1], y |-> pos[2]])
              /\ NewCommands[n].name = "DrawText"
    /\ rpc # "idle" => SubSeq(commands', 1, Len(commands)) = commands
    /\ LET drawn == SelectSeq(commands', IsDraw)
           kids  == Drawing(groups')
       IN  rpc' \in {"groups", "children", "done"} =>
             /\ Len(drawn) = Len(kids)
             /\ \A i \in 1..Len(kids) :
                   drawn[i].name = IF kids[i].tag = "Field" THEN "DrawText" ELSE "DrawBarcode"
    /\ \A i \in 1..Len(commands') :
          commands'[i].name = "DrawText" => (i > 1 /\ commands'[i - 1].name = "MoveTo")

C11_FieldBlocks == [][C11_Step]_vars

\* a barcode in the first group and a field with its own font in the second
C11_Witness ==
    /\ rpc = "done" /\ Len(groups) = 2
    /\ Len(groups[1].children) = 1 /\ groups[1].children[1].tag = "Barcode"
    /\ Len(groups[2].children) = 1 /\ groups[2].children[1].tag = "Field"
    /\ groups[2].children[1].font = "Mono"
    /\ Len(commands) = 7
    /\ commands[3].name = "DrawBarcode" /\ commands[4].name = "SetFont"
    /\ commands[5] = Cmd("MoveTo", [x |-> 150, y |-> 190])
    /\ commands[6].name = "DrawText"

\* C12: a barcode step emits no SetFont and keeps the font and the size of the
\* render state; after SetAlignment / SetDirection commands that follow the
\* state-diff rule it appends exactly one MoveTo at offset + local position
\* followed at once by exactly one DrawBarcode, of type DATAMATRIX when the
\* descriptor names none, with integer width, ratio, height and size.
C12_Step ==
    (ReadsChild /\ ChildRead.tag = "Barcode") =>
        LET n   == Len(NewCommands)
            pos == Position(groups'[Len(groups')].attrs, ChildRead)
            bc  == NewCommands[n]
        IN  /\ rpc' # "raised"
            /\ state'.font = state.font /\ state'.size = state.size
            /\ n >= 2
            /\ \A i \in 1..(n - 2) :
                  /\ NewCommands[i].name \in {"SetAlignment", "SetDirection"}
                  /\ NewCommands[i].name = "SetAlignment" =>
                        (NewCommands[i].args.align # state.align
                           /\ state'.align = NewCommands[i].args.align)
                  /\ NewCommands[i].name = "SetDirection" =>
                        (NewCommands[i].args.direction # state.direction
                           /\ state'.direction = NewCommands[i].args.direction)
            /\ NewCommands[n - 1] = Cmd("MoveTo", [x |-> pos[1], y |-> pos[2]])
            /\ bc.name = "DrawBarcode"
            /\ ChildRead.type = None => bc.args.type = "DATAMATRIX"
            /\ \A k \in {"width", "ratio", "height", "size"} : bc.args[k] \in Int
            /\ bc.args.ratio = 2 /\ bc.args.width = 1 /\ bc.args.size = 100

C12_BarcodeNoFont == [][C12_Step]_vars

\* a barcode that changes alignment and direction after a field that set a font
C12_Witness ==
    /\ rpc = "children" /\ Len(groups) = 1 /\ Len(groups[1].children) = 2
    /\ groups[1].children[1].tag = "Field" /\ groups[1].children[2].tag = "Barcode"
    /\ groups[1].children[2].align = "right"
    /\ state.font = "Mono" /\ state.align = "right" /\ state.direction = "3"
    /\ Len(commands) = 8
    /\ commands[5].name = "SetAlignment" /\ commands[6].name = "SetDirection"
    /\ commands[7].name = "MoveTo" /\ commands[8].name = "DrawBarcode"

\* the text of a field before formatting: the text attribute, or
\* prefix + looked-up value + suffix
Literal(e, vm) ==
    IF e.text \notin {None, ""} THEN e.text
    ELSE (IF e.prefix = None THEN "" ELSE e.prefix)
           \o (IF vm[e.name] = Missing THEN "" ELSE vm[e.name])
           \o (IF e.suffix = None THEN "" ELSE e.suffix)

\* C13: no field makes the render raise; the text drawn is its literal text
\* with a placeholder of the value map replaced by the value, and the literal
\* text unchanged when a placeholder cannot be resolved.
C13_Step ==
    (ReadsChild /\ ChildRead.tag = "Field") =>
        LET lit == Literal(ChildRead, values)
        IN  /\ rpc' # "raised"
            /\ NewCommands # <<>>
            /\ NewCommands[Len(NewCommands)] =
                  Cmd("DrawText",
                      [text |-> IF lit = "Hello {NAME}" /\ values["NAME"] # Missing
                                THEN "Hello " \o values["NAME"] ELSE lit])

C13_FormatNeverFails == [][C13_Step]_vars

\* ---- the registry --------------------------------------------------------------

Renders == { i \in 1..Len(rendered) :
               rendered[i].fn = "render_template" /\ rendered[i].tpl # 0 }

\* C14: two renders of one template object with equal value maps end alike,
\* whatever was rendered in between: both raise the same exception or both
\* return equal envelopes (the same layout fields, the same command list, so
\* the same Set* commands); and no call changes a template object in the cache.
C14_Step ==
    /\ \A i, j \in Renders' :
          (rendered'[i].tpl = rendered'[j].tpl /\ rendered'[i].vals = rendered'[j].vals)
          => /\ rendered'[i].exc = rendered'[j].exc
             /\ rendered'[i].env = rendered'[j].env
    /\ \A k \in DOMAIN cache : k \in DOMAIN cache' /\ cache'[k] = cache[k]

C20_Step ==
    /\ \A n \in _TEMPLATE_FILES : parses'[n] <= 1
    /\ \A i, j \in 1..Len(rendered') :
          (rendered'[i].name = rendered'[j].name
             /\ rendered'[i].name \in _TEMPLATE_FILES)
          => rendered'[i].tpl = rendered'[j].tpl
    /\ \A k \in DOMAIN cache : k \in DOMAIN cache' /\ cache'[k] = cache[k]
    /\ \A i \in 1..Len(rendered') :
          rendered'[i].name \notin _TEMPLATE_FILES => rendered'[i].exc = "KeyError"
    /\ \A k \in DOMAIN cache' : k[2] \in _TEMPLATE_FILES

C20_ParsedOnce == [][C20_Step]_vars

\* ---- the interpreter ----------------------------------------------------------

\* the driver method the claim binds to each command name
C4_Method(n) ==
    CASE n = "Setup"        -> "setup"
      [] n = "SetFont"      -> "set_font"
      [] n = "SetAlignment" -> "set_alignment"
      [] n = "SetDirection" -> "set_direction"
      [] n = "MoveTo"       -> "move_to"
      [] n = "DrawText"     -> "draw_text"
      [] n = "DrawBarcode"  -> "draw_barcode"
      [] n = "Comment"      -> "comment"
      [] n = "PrintFeed"    -> "print_feed"

\* the keyword arguments of an entry (an entry without args has none)
ArgsOf(e) == IF e.args.t = "map" THEN e.args.m ELSE NoArgs

\* call i of the run is the call the claim expects for entry i
CallMatches(i) ==
    LET e == commands_in[i]
    IN  /\ e.mapping /\ e.name.t = "str" /\ e.name.s \in CommandNames
        /\ calls[i] = [method |-> C4_Method(e.name.s), args |-> ArgsOf(e)]

\* C4: the driver calls of a run are, in list order, one call per entry read,
\* each to the method bound to the name of the entry and with its args; a run
\* that completes has called the driver for every entry, and a well-formed
\* entry with a name outside the nine makes the run fail as unsupported.
C4_DispatchInOrder ==
    /\ Len(calls) <= Len(commands_in)
    /\ \A i \in 1..Len(calls) : CallMatches(i)
    /\ (err = "none" /\ ipc \in {"executing", "exiting", "done"})
          => Len(calls) = Len(commands_in)
    /\ \A i \in 1..Len(commands_in) :
          LET e == commands_in[i]
          IN  (e.mapping /\ e.name.t = "str" /\ e.args.t \in {"map", "missing"}
                 /\ e.name.s \notin CommandNames)
              => /\ err = "KeyError:Unsupported command"
                 /\ i = Len(commands_in) /\ Len(calls) = i - 1

C4_Witness ==
    /\ ipc = "done" /\ err = "none"
    /\ Len(calls) = 2
    /\ calls[1] = [method |-> "move_to", args |-> [x |-> 100, y |-> 200]]
    /\ calls[2].method = "draw_text"

\* the invalid entries of the claim
C5_Malformed(e) == ~e.mapping \/ e.name.t # "str" \/ e.args.t \notin {"map", "missing"}
C5_Unknown(e) == ~C5_Malformed(e) /\ e.name.s \notin CommandNames
C5_MalformedErrors == {"TypeError:command entries must be mappings",
                       "ValueError:command name must be a string",
                       "TypeError:command args must be a mapping"}

\* C5: when entry i is the first invalid entry, the run has called the driver
\* for exactly the entries before it, reads no later entry, prints or sends
\* nothing more, and is failing with the error of the kind of the entry.
C5_Step ==
    \A i \in 1..Len(commands_in') :
        LET e == commands_in'[i]
        IN  (C5_Malformed(e) \/ C5_Unknown(e))
            => /\ i = Len(commands_in')
               /\ ipc' \in {"exiting", "failed"}
               /\ Len(calls') = i - 1
               /\ \A j \in 1..(i - 1) :
                     calls'[j] = [method |-> C4_Method(commands_in'[j].name.s),
                                  args |-> ArgsOf(commands_in'[j])]
               /\ C5_Malformed(e) => err' \in C5_MalformedErrors
               /\ C5_Unknown(e) => err' = "KeyError:Unsupported command"
               /\ (commands_in' # commands_in)
                     => (calls' = calls /\ output' = output /\ drv'.sent = drv.sent)
               /\ (commands_in' = commands_in)
                     => (calls' = calls /\ output' = output /\ drv'.sent = drv.sent /\ err' = err)

C5_StopAtFirstInvalid == [][C5_Step]_vars

C5_Witness ==
    /\ ipc = "failed"
    /\ err = "TypeError:command args must be a mapping"
    /\ Len(commands_in) = 2 /\ Len(calls) = 1
    /\ drv.kind = "PD41" /\ drv.dry_run /\ Len(drv.sent) = 1

\* errors that end a run before the with block is reached
C6_EarlyErrors == {"OSError:payload", "TypeError:Unsupported payload type",
                   "ValueError:float", "TypeError:float",
                   "ValueError:dpi must be numeric",
                   "TypeError:commands collection must be iterable",
                   "OSError:connect"}

\* C6: with a driver that has a session, a run enters it once before the first
\* driver call and leaves it once after the last, whether the run completes or
\* fails in _execute; the run goes idle, executing, idle; the socket of a
\* PD41Driver is None whenever no run is in progress.
C6_Step ==
    HasSession(drv) =>
        /\ session'.exits <= session'.enters /\ session'.enters <= 1
        /\ ipc' = "executing" => session' = [enters |-> 1, exits |-> 0]
        /\ ipc' = "exiting" => session' = [enters |-> 1, exits |-> 0]
        /\ (calls' # calls /\ calls' # <<>>)
              => (ipc = "executing" /\ session = [enters |-> 1, exits |-> 0])
        /\ (ipc' \in {"done", "failed"} /\ err' \notin C6_EarlyErrors /\ runs' > 0)
              => session' = [enters |-> 1, exits |-> 1]
        /\ (ipc' \in {"done", "failed"} /\ err' \in C6_EarlyErrors)
              => session' = NoSession
        /\ (ipc' \in {"idle", "configured", "done", "failed"}) => drv'.sock = None
        /\ (ipc' = "executing" /\ ~drv.dry_run) => drv'.sock # None
        /\ ipc' # ipc => \/ ipc \in {"idle", "done", "failed"} /\ ipc' \in {"configured", "failed"}
                         \/ ipc = "configured" /\ ipc' \in {"executing", "failed"}
                         \/ ipc = "executing" /\ ipc' = "exiting"
                         \/ ipc = "exiting" /\ ipc' \in {"done", "failed"}

C6_SessionScoped == [][C6_Step]_vars

C6_Witness ==
    /\ drv.kind = "PD41" /\ ~drv.dry_run
    /\ ipc = "failed" /\ err = "OSError:send"
    /\ session = [enters |-> 1, exits |-> 1]
    /\ drv.sock = None
    /\ Len(calls) = 2

\* ---- layout configuration -------------------------------------------------------

\* the number and the string an envelope field stands for, as the claims read it
EnvNum(j) == IF j.t = "num" THEN j.n ELSE 0
EnvStr(j, default) == IF j.t = "str" THEN j.s ELSE default

\* the run is past _configure_driver
Configured == ipc \in {"configured", "executing", "exiting", "done"}

\* C7: once run is past the configuration, and so before the session is
\* entered and before any driver call, a driver with configure_layout and
\* set_label_context holds the width, height, units, origin and y_direction of
\* the envelope, and its dpi when it has one; a driver with neither keeps its
\* attributes and still gets a call for every entry.
C7_ConfiguredFirst ==
    /\ (Configured /\ drv.kind \in {"PD41", "GDI"})
          => /\ drv.label_width = EnvNum(data.width)
             /\ drv.label_height = EnvNum(data.height)
             /\ drv.units = EnvStr(data.units, "mm")
             /\ drv.origin = EnvStr(data.origin, "bottom-left")
             /\ drv.y_direction = EnvStr(data.y_direction, "up")
    /\ (Configured /\ data.dpi.t = "num") => drv.dpi = data.dpi.n
    /\ ipc = "configured" => (session = NoSession /\ calls = <<>> /\ drv.sock = None)
    /\ (calls # <<>> \/ session.enters > 0) => (Configured \/ ipc = "failed")
    /\ drv.kind = "Stub"
          => /\ drv.origin = None /\ drv.y_direction = None /\ drv.units = None
             /\ drv.label_width = NoneF /\ drv.label_height = NoneF
             /\ (ipc = "done" => Len(calls) = Len(commands_in))

C7_Witness ==
    /\ drv.kind = "GDI" /\ ipc = "configured"
    /\ data.origin = JMissing /\ drv.origin = "bottom-left" /\ drv.y_direction = "up"
    /\ drv.label_height = 500 /\ drv.label_width = 600 /\ drv.dpi = 3000
    /\ calls = <<>>

C7_WitnessStub == drv.kind = "Stub" /\ ipc = "done" /\ Len(calls) = 2 /\ drv.dpi = 3000

\* a step that is a call of run whose payload was accepted and whose width and
\* height were coerced
C8_RunConfigures ==
    /\ runs' = runs + 1
    /\ err' \notin {"OSError:payload", "TypeError:Unsupported payload type",
                    "ValueError:float", "TypeError:float"}

\* C8: a run whose envelope has no dpi (absent or null) leaves the dpi of the
\* driver as it was before the call; a dpi that coerces to a number becomes the
\* dpi of the driver; a dpi that does not makes run fail with the dpi error
\* before any session is entered and before any driver call.
C8_Step ==
    /\ C8_RunConfigures =>
          LET dv == data'.dpi
          IN  /\ dv.t \in {"missing", "null"} => drv'.dpi = drv.dpi
              /\ dv.t = "num" => drv'.dpi = dv.n
              /\ dv = JStr("300") => drv'.dpi = 3000
              /\ dv = JStr("abc") => /\ err' = "ValueError:dpi must be numeric"
                                     /\ ipc' = "failed"
    /\ err' = "ValueError:dpi must be numeric"
          => (ipc' = "failed" /\ session' = NoSession /\ calls' = <<>> /\ drv'.sock = None)

C8_DpiHandling == [][C8_Step]_vars

C8_Witness ==
    /\ runs = 2 /\ ipc = "failed" /\ err = "ValueError:dpi must be numeric"
    /\ data.dpi = JStr("abc")
    /\ drv.kind = "GDI" /\ drv.dpi = 3000

C8_WitnessCoerced == ipc = "configured" /\ data.dpi = JStr("300") /\ drv.dpi = 3000

\* the points the coordinate claims are checked on (tenths)
Points == {0, 150, 200, 700}

\* C9: GdiDriverStub.to_device_coords(x, y) is (x, H - y) for a non-zero label
\* height H and (x, y) for a zero one; move_to prints the transformed point;
\* H is 60.0 until a run configures the driver and from then on the height of
\* the latest envelope whose layout was pushed.
C9_Step ==
    drv.kind = "GDI" =>
        /\ \A x \in Points, y \in Points :
              to_device_coords(drv', x, y) =
                 IF drv'.label_height # 0 THEN <<x, drv'.label_height - y>> ELSE <<x, y>>
        /\ (output' # output /\ output' # <<>> /\ calls'[Len(calls')].method = "move_to")
              => LET a == calls'[Len(calls')].args
                     H == drv.label_height
                 IN  output'[Len(output')] =
                        IF H # 0 THEN "[MOVE] " \o Fmt1(a.x) \o "," \o Fmt1(H - a.y)
                        ELSE "[MOVE] " \o Fmt1(a.x) \o "," \o Fmt1(a.y)
        /\ (runs' = 0) => drv'.label_height = 600
        /\ (drv'.label_height # drv.label_height)
              => (runs' = runs + 1 /\ drv'.label_height = EnvNum(data'.height))
        /\ (runs' = runs + 1 /\ C8_RunConfigures) => drv'.label_height = EnvNum(data'.height)

C9_GdiFlip == [][C9_Step]_vars

C9_Witness ==
    /\ drv.kind = "GDI" /\ drv.label_height = 500
    /\ Len(output) = 1 /\ output[1] = "[MOVE] 10.0,30.0"
    /\ runs = 2

C9_WitnessZero ==
    drv.kind = "GDI" /\ drv.label_height = 0 /\ Len(output) = 1 /\ output[1] = "[MOVE] 10.0,20.0"

\* C10: a driver whose y_direction is "up" and whose origin is "bottom-left"
\* maps every point to itself.
C10_CanonicalIdentity ==
    (drv.y_direction = "up" /\ drv.origin = "bottom-left")
        => \A x \in Points, y \in Points : to_device_coords(drv, x, y) = <<x, y>>

\* C15: a call of emit(name, args) appends exactly the entry {name, args} at the
\* end of the command list, for a name of the protocol and for any other name
\* alike, without raising; the entries before it and the layout stay as they
\* were, and the entry it returns is the stored one: an update of its args
\* shows in to_dict(), which lists the commands in the order of the emits.
C15_Step ==
    /\ \A c \in EmitCalls :
          Emit(c[1], c[2]) =>
             /\ to_dict(layout', commands').commands = Append(commands, Cmd(c[1], c[2]))
             /\ Len(commands') = Len(commands) + 1
             /\ SubSeq(commands', 1, Len(commands)) = commands
             /\ layout' = layout
             /\ err' = "none"
             /\ returned' = Len(commands')
             /\ commands'[returned'] = Cmd(c[1], c[2])
    /\ \A v \in {JNull, JInt(7)} :
          MutateReturned("note", v) =>
             LET d == to_dict(layout', commands')
             IN  /\ d.commands[returned].name = commands[returned].name
                 /\ "note" \in DOMAIN d.commands[returned].args
                 /\ d.commands[returned].args["note"] = v
                 /\ \A k \in DOMAIN commands[returned].args \ {"note"} :
                       d.commands[returned].args[k] = commands[returned].args[k]
                 /\ Len(d.commands) = Len(commands)
                 /\ \A i \in 1..Len(commands) :
                       i # returned => d.commands[i] = commands[i]
                 /\ d.layout = layout

C15_EmitAppends == [][C15_Step]_vars

\* a name outside the protocol was emitted after a command of the protocol, and
\* the entry emit returned for it was updated afterwards
C15_Witness ==
    /\ Len(commands) = 2
    /\ commands[1].name = "MoveTo"
    /\ commands[2].name = "Foo"
    /\ returned = 2
    /\ "note" \in DOMAIN commands[2].args
    /\ commands[2].args["note"] = JInt(7)
    /\ "width" \in DOMAIN layout
    /\ layout.width = 600

\* a value Python takes for false, or no value at all
Falsy(v) ==
    \/ v.t \in {"missing", "null"}
    \/ v.t \in {"num", "int", "bool"} /\ v.n = 0
    \/ v.t = "str" /\ v.s = ""

\* C19: every call of set_layout overwrites width, height, units, origin and
\* y_direction of the envelope with the values given (the last call wins), and
\* a width or a height that is not passed or is falsy (None, 0, the empty
\* string) is stored as 0.0 and the call does not raise.
C19_Step ==
    \A c \in LayoutCalls :
       SetLayout(c[1], c[2], c[3], c[4]) =>
          /\ (Falsy(c[1]) \/ Falsy(c[2])) => err' = "none"
          /\ err' = "none" =>
                /\ layout'.width = (IF Falsy(c[1]) THEN 0 ELSE PyFloat(c[1]).v)
                /\ layout'.height = (IF Falsy(c[2]) THEN 0 ELSE PyFloat(c[2]).v)
                /\ layout'.units = c[3][1]
                /\ layout'.origin = c[3][2]
                /\ layout'.y_direction = c[3][3]

C19_SetLayoutOverwrites == [][C19_Step]_vars

\* run on the envelope of the state handed over as kind pk: what the driver was
\* called with and what came of it
RunAs(pk, connected) ==
    run(drv, Payload(pk, EnvelopeTree(layout, commands), to_json(layout, commands)),
        connected)

\* C16: for an envelope built with set_layout and emit, parsing the text of
\* to_json() gives a structure equal to to_dict(): the same commands with the
\* same names and args in the same order and the same layout fields; and run
\* on the JSON text makes the same driver calls, with the same outcome, as run
\* on the dict.
C16_Step ==
    /\ (json_doc = NoDoc /\ json_doc' # NoDoc) =>
          /\ json_doc'.exc = "none"
          /\ json_doc'.v = EnvelopeTree(layout, commands)
          /\ \A k \in DOMAIN layout :
                TreeGet(json_doc'.v, k)
                   = (IF k \in {"width", "height", "dpi"} THEN JNum(layout[k])
                      ELSE JStr(layout[k]))
          /\ Len(TreeGet(json_doc'.v, "commands").items) = Len(commands)
          /\ \A i \in 1..Len(commands) :
                LET e == TreeGet(json_doc'.v, "commands").items[i]
                IN  /\ TreeGet(e, "name") = JStr(commands[i].name)
                    /\ TreeGet(e, "args") = Obj(commands[i].args)
    /\ runs' = runs + 1 =>
          \A c \in BOOLEAN :
             LET j == RunAs("json", c)
                 m == RunAs("mapping", c)
             IN  /\ j = m
                 /\ RunEmitted(payload', c) =>
                       /\ calls' = j.calls /\ calls' = m.calls
                       /\ output' = j.out /\ output' = m.out
                       /\ err' = j.exc /\ err' = m.exc

C16_RoundTrip == [][C16_Step]_vars

\* an envelope with a layout, a MoveTo with a float and an int, and a text
\* holding a quote was serialised, parsed back and run from its JSON text: the
\* driver was set up, moved and drew
C16_Witness ==
    /\ json_doc # NoDoc
    /\ json_doc.exc = "none"
    /\ runs = 1
    /\ payload = "json"
    /\ err = "none"
    /\ Len(commands) = 2
    /\ commands[1] = Cmd("MoveTo", [x |-> JNum(100), y |-> JInt(20)])
    /\ commands[2] = Cmd("DrawText", [text |-> JStr("a\"b")])
    /\ "dpi" \in DOMAIN layout
    /\ layout.width = 600
    /\ Len(calls) = 2
    /\ session = [enters |-> 1, exits |-> 1]

\* the exceptions of _coerce_payload
PayloadErrors == {"OSError:payload", "JSONDecodeError", "TypeError:Unsupported payload type"}

\* run on the mapping v
RunMapping(v, connected) == run(drv, Payload("mapping", v, <<>>), connected)

\* C17: run uses a mapping as it is, parses a str that holds a JSON text, and
\* reads a Path, or a str that is no JSON text, as the name of a file with a
\* JSON text; with any other payload (another type, a str that is neither a
\* JSON text nor the name of a readable file with a JSON text) it raises the
\* error of the payload and makes no call on the driver: the layout is not
\* configured, no session is entered, no command runs.
C17_Step ==
    \A p \in Payloads, c \in BOOLEAN :
       RunPayload(p, c) =>
          LET isJson == p.kind = "json" /\ loads(p.text).exc = "none"
              isFile == /\ p.kind = "path" \/ (p.kind = "json" /\ ~isJson)
                        /\ read_text(p.text).exc = "none"
                        /\ loads(read_text(p.text).text).exc = "none"
              r      == [exc |-> err', d |-> drv', out |-> SubSeq(output', Len(output) + 1,
                                                                  Len(output')),
                         calls |-> calls', session |-> session']
          IN  /\ p.kind = "mapping" => r = RunCoerced(drv, [exc |-> "none", data |-> p.tree], c)
              /\ isJson => r = RunMapping(loads(p.text).v, c)
              /\ isFile => r = RunMapping(loads(read_text(p.text).text).v, c)
              /\ (p.kind # "mapping" /\ ~isJson /\ ~isFile) =>
                    /\ err' \in PayloadErrors
                    /\ drv' = drv
                    /\ calls' = <<>>
                    /\ output' = output
                    /\ session' = NoSession

C17_PayloadCoercion == [][C17_Step]_vars

\* after a run from a file named by a str that drove the printer, a run with
\* a str that is neither JSON nor a file failed and left the driver as it was
C17_Witness ==
    /\ runs = 2
    /\ err = "OSError:payload"
    /\ payload = "json"
    /\ calls = <<>>
    /\ session = NoSession
    /\ drv.kind = "PD41"
    /\ drv.label_width = 600
    /\ Len(drv.sent) > 0

\* the driver or the client has no connection
NotConnected == {"AssertionError", "RuntimeError:PrinterClient not connected"}

\* a command method of a live driver, and send of a live client, called
\* outside a session: it raises the error of the missing connection and
\* nothing goes to the socket.  sendNothing says whether send("") is among
\* the calls looked at.
C18_Holds(sendNothing) ==
    /\ \A e \in DirectEntries :
          (DriverMethod(e) /\ ~drv.dry_run /\ drv.sock = None) =>
             /\ err' \in NotConnected
             /\ output' = output
             /\ drv' = drv
    /\ \A line \in ClientLines :
          (ClientSend(line) /\ ~client.dry_run /\ client._sock = None
             /\ (sendNothing \/ line # "")) =>
             /\ err' \in NotConnected
             /\ client'.wire = client.wire
             /\ client'.sent = client.sent

\* C18: a command method of a live driver (dry_run false) called while no
\* session is open, before the session is entered or after it is left, fails
\* with the error of the missing connection and transmits nothing: this holds
\* for every command method of PD41Driver and for PrinterClient.send.
C18_Step == C18_Holds(TRUE)

C18_NotConnected == [][C18_Step]_vars

\* C18 as the code has it: PrinterClient.send of an empty line returns at once,
\* connected or not, and raises nothing; every other call fails as stated.
C18_AmendedStep == C18_Holds(FALSE)

C18_NotConnectedNonEmpty == [][C18_AmendedStep]_vars

\* the session of a live driver was entered and left, a text drawn afterwards
\* failed, and then a line handed to a client outside its session failed:
\* nothing reached either socket
C18_Witness ==
    /\ ~drv.dry_run
    /\ session = [enters |-> 1, exits |-> 1]
    /\ Len(calls) = 2
    /\ calls[1].method = "draw_text"
    /\ calls[2] = [method |-> "send", args |-> [line |-> "PRINTFEED"]]
    /\ err = "RuntimeError:PrinterClient not connected"
    /\ ~client.dry_run /\ client._sock = None
    /\ output = <<>>
    /\ client.wire = <<>>

\* the lines of the FingerPrint dialect the calls of the model stand for
WireLines(e) ==
    LET a == e.args.m
    IN  CASE e.name.s = "Setup"        -> <<"SETUP \"label\"">>
          [] e.name.s = "SetFont"      -> <<"FONT \"Mono\",10">>
          [] e.name.s = "SetAlignment" -> <<"ALIGN left">>
          [] e.name.s = "SetDirection" -> <<"DIR 1">>
          [] e.name.s = "MoveTo"       -> <<"PRPOS 10,20">>
          [] e.name.s = "DrawText"     -> <<"PRTXT \"a\"\"b\"">>
          [] e.name.s = "DrawBarcode"  ->
                IF a.value = "a\"b"
                THEN <<"BARSET \"EAN13\",1,2,3,100", "PRBAR \"a\"\"b\"">>
                ELSE <<"BARSET \"DATAMATRIX\",1,2,3,100", "PRBAR \"0101\"">>
          [] e.name.s = "Comment"      -> <<"REM -- note --">>
          [] e.name.s = "PrintFeed"    -> <<"PRINTFEED">>

\* C22: on the wire of a PD41Driver, draw_text is exactly one line PRTXT
\* "<text>" with every double quote of the text doubled; draw_barcode is
\* exactly two lines, BARSET "<type>",<width>,<ratio>,<height>,<size> and at
\* once PRBAR "<value>" with the quotes of the value doubled; every other
\* command is exactly one line; in live mode every line sent ends with
\* exactly one CRLF (in dry run the same lines are kept without it).
C22_Step ==
    \A e \in DirectEntries :
       DriverMethod(e) =>
          LET want == WireLines(e)
              got  == SubSeq(output', Len(output) + 1, Len(output'))
              kept == SubSeq(drv'.sent, Len(drv.sent) + 1, Len(drv'.sent))
          IN  /\ Len(want) = (IF e.name.s = "DrawBarcode" THEN 2 ELSE 1)
              /\ (~drv.dry_run /\ drv.sock # None) =>
                    /\ err' = "none"
                    /\ got = [i \in 1..Len(want) |-> want[i] \o "\r\n"]
                    /\ kept = <<>>
              /\ drv.dry_run =>
                    /\ err' = "none"
                    /\ kept = want
                    /\ got = <<>>

C22_WireOutput == [][C22_Step]_vars

\* in the session of a live driver a barcode whose value holds a quote and a
\* direction carrying its own line end went out: three lines, one CRLF each
C22_Witness ==
    /\ ~drv.dry_run /\ drv.sock # None
    /\ session = [enters |-> 1, exits |-> 0]
    /\ Len(calls) = 2
    /\ calls[1].method = "draw_barcode" /\ calls[1].args.value = "a\"b"
    /\ calls[2].method = "set_direction" /\ calls[2].args.direction = "1\r\n"
    /\ output = <<"BARSET \"EAN13\",1,2,3,100\r\n", "PRBAR \"a\"\"b\"\r\n", "DIR 1\r\n">>

\* the value map a render was begun with holds the key k
HasKey(vm, k) == k \in DOMAIN vm /\ vm[k] # Missing

\* the value attribute of a barcode, or the empty string
LiteralValue(e) == IF e.value = None THEN "" ELSE e.value

\* C23: the value of a rendered DrawBarcode is the value the map holds for the
\* name of the barcode when the name is a key of the map; otherwise (the name
\* is no key of the map, or the barcode has no name attribute) it is the value
\* attribute of the barcode, or the empty string when there is none.
C23_Step ==
    (ReadsChild /\ ChildRead.tag = "Barcode") =>
        LET e  == ChildRead
            bc == commands'[Len(commands')]
        IN  /\ bc.name = "DrawBarcode"
            /\ bc.args.value = (IF e.name # None /\ HasKey(values, e.name)
                                THEN values[e.name]
                                ELSE LiteralValue(e))

C23_BarcodeValue == [][C23_Step]_vars

\* C23 as the code has it: a barcode without a name, or with an empty one, is
\* looked up under the empty key; the value attribute is used when the key
\* looked up is not in the map.
C23_AmendedStep ==
    (ReadsChild /\ ChildRead.tag = "Barcode") =>
        LET e   == ChildRead
            bc  == commands'[Len(commands')]
            key == IF e.name = None THEN "" ELSE e.name
        IN  /\ bc.name = "DrawBarcode"
            /\ bc.args.value = (IF HasKey(values, key) THEN values[key]
                                ELSE LiteralValue(e))

C23_BarcodeValueByKey == [][C23_AmendedStep]_vars

\* a barcode named NAME with its own value attribute took the value of the
\* map, and a barcode named OTHER after it took its value attribute
C23_Witness ==
    /\ rpc = "children" /\ Len(groups) = 1 /\ Len(groups[1].children) = 2
    /\ groups[1].children[1].name = "NAME" /\ groups[1].children[1].value = "lit"
    /\ groups[1].children[2].name = "OTHER" /\ groups[1].children[2].value = "lit"
    /\ values["NAME"] = "World"
    /\ \E i \in 1..Len(commands) :
          /\ commands[i].name = "DrawBarcode" /\ commands[i].args.value = "World"
          /\ \E j \in (i + 1)..Len(commands) :
                commands[j].name = "DrawBarcode" /\ commands[j].args.value = "lit"

\* ---- C26..C28: the driver across runs ---------------------------------------

\* the layout attributes of a driver
LayoutOf(d) == <<d.label_width, d.label_height, d.units, d.origin, d.y_direction, d.dpi>>

\* a step that is a call of run failing on the dpi of its envelope
DpiFailure == runs' = runs + 1 /\ err' = "ValueError:dpi must be numeric"

\* C26: a run that fails because the dpi of the envelope is not numeric leaves
\* label_width, label_height, units, origin, y_direction and dpi of the driver
\* as they were before the call.
C26_Step == DpiFailure => LayoutOf(drv') = LayoutOf(drv)

C26_DriverUntouched == [][C26_Step]_vars

\* C28: the dpi of the driver changes only in a run whose envelope has a dpi,
\* and then to that dpi, so a run without dpi keeps the dpi an earlier run
\* pushed; label_height, units, origin and y_direction of a driver with
\* configure_layout are those of the latest envelope after every configuration,
\* the height being 0.0 when the envelope has none.
C28_Step ==
    /\ drv'.dpi # drv.dpi
          => /\ runs' = runs + 1
             /\ data'.dpi.t \notin {"missing", "null"}
             /\ drv'.dpi = (IF data'.dpi.t = "num" THEN data'.dpi.n ELSE 3000)
    /\ (C8_RunConfigures /\ data'.dpi.t \in {"missing", "null"}) => drv'.dpi = drv.dpi
    /\ (C8_RunConfigures /\ err' # "ValueError:dpi must be numeric"
           /\ drv.kind \in {"PD41", "GDI"})
          => /\ drv'.label_height = EnvNum(data'.height)
             /\ drv'.units = EnvStr(data'.units, "mm")
             /\ drv'.origin = EnvStr(data'.origin, "bottom-left")
             /\ drv'.y_direction = EnvStr(data'.y_direction, "up")
             /\ data'.height = JMissing => drv'.label_height = 0

C28_DpiPersists == [][C28_Step]_vars

\* the second run, with an envelope without dpi, height and origin, on a GDI
\* driver (dpi 96, height 60, top-left when built) that an earlier envelope
\* gave the dpi 300
C28_Witness ==
    /\ runs = 2 /\ ipc = "configured" /\ drv.kind = "GDI"
    /\ data.dpi = JMissing /\ data.height = JMissing /\ data.origin = JMissing
    /\ drv.dpi = 3000 /\ drv.label_height = 0
    /\ drv.origin = "bottom-left" /\ drv.y_direction = "up"

\* the lines the last call of the run stands for, as PD41Driver buffers them
LastCallLines ==
    LET c == calls'[Len(calls')]
    IN  IF c.method = "draw_barcode" THEN PD41Lines(c.method, c.args)
        ELSE <<StripLine(PD41Lines(c.method, c.args)[1])>>

\* s is the beginning of t
IsPrefix(s, t) == Len(s) <= Len(t) /\ SubSeq(t, 1, Len(s)) = s

\* C27: a PD41Driver in dry run has no socket in any state, a command call
\* appends its lines to the end of sent, and every other step (entering and
\* leaving the session, a failing run, the start of another run) leaves sent as
\* it is.
C27_Step ==
    (drv.kind = "PD41" /\ drv.dry_run) =>
        /\ drv.sock = None /\ drv'.sock = None
        /\ drv'.dry_run
        /\ IsPrefix(drv.sent, drv'.sent)
        /\ IF Len(calls') = Len(calls) + 1
           THEN drv'.sent = drv.sent \o LastCallLines
           ELSE drv'.sent = drv.sent

C27_DryRunAppendOnly == [][C27_Step]_vars

\* a second run on the same dry-run driver, the first of which failed after a
\* call: the line of the first run is still first, the line of the second last
C27_Witness ==
    /\ drv.kind = "PD41" /\ drv.dry_run /\ drv.sock = None
    /\ runs = 2 /\ ipc = "done" /\ session.enters = 1 /\ session.exits = 1
    /\ Len(calls) = 1 /\ calls[1].method = "draw_text"
    /\ drv.sent = <<"PRPOS 10,20", "PRTXT \"a\"\"b\"">>

\* ---- C29: the font the client remembers -------------------------------------

\* the step is a call of client.font
FontCall == Len(calls') = Len(calls) + 1 /\ calls'[Len(calls')].method = "font"

\* the (name, size) pair the client holds
FontPair(c) == <<c._font_name, c._font_size>>

\* C29: the pair the client holds is that of the last FONT line sent in the
\* session: entering a session empties it, a font call that puts a FONT line on
\* the wire records the pair of that line, and a font call that sends nothing,
\* its send having failed included, leaves the pair as it was.
C29_Step ==
    /\ (client'._sock # client._sock /\ client'._sock # None)
          => FontPair(client') = <<None, NoneF>>
    /\ FontCall =>
          LET a == calls'[Len(calls')].args
          IN  IF client'.wire # client.wire
              THEN /\ FontPair(client) # <<a.name, a.size>>
                   /\ FontPair(client') = <<a.name, a.size>>
                   /\ client'.wire = Append(client.wire,
                          "FONT \"" \o a.name \o "\"," \o IntStr(a.size) \o "\r\n")
              ELSE FontPair(client') = FontPair(client)

C29_FontTracking == [][C29_Step]_vars

\* ---- utils.pd41: ScleralLabelTemplate.compute_fields ------------------------

\* the keys a record may carry, and the keys compute_fields sets
FieldKeys == {"NAAM", "SUBNAAM", "CODER", "CODEL", "SCLAPTR", "SCLAPTL", "SCLEDGR",
              "SCLEDGL", "DRAD2R", "DRAD2L", "CYLR", "CYLL", "XASR", "XASL",
              "BONNR", "DI", "DATUM", "UDI"}
ComputedKeys == {"SUBNAAMR", "SUBNAAML", "CYLASR", "CYLASL", "_show_right",
                 "_show_left", "UDI"}

\* str(v.get(k, default)): str(None) is the text "None"
StrGet(v, k, default) ==
    IF v[k] = Missing THEN default ELSE IF v[k] = None THEN "None" ELSE v[k]

\* s[:n] on the codes of the model (line 149)
left(s, n) ==
    CASE s = "7MS1" /\ n = 3 -> "7MS"
      [] s = "7MS1" /\ n = 2 -> "7M"
      [] s = "7TX" /\ n = 2  -> "7T"
      [] OTHER               -> s

\* s[-1:] on the cylinders of the model (line 150 with n = 1)
right1(s) == CASE s = " " -> " " [] s = "-1.25" -> "5" [] OTHER -> s

\* s.rstrip(" ") (line 151)
trim_right_spaces(s) == IF s = "Name  " THEN "Name" ELSE s

\* s.strip() on the strings of the model
Strip(s) == CASE s = " 1 " -> "1" [] s = "  " -> "" [] s = " x " -> "x" [] OTHER -> s

\* the digits of a string, and how many they are
DigitsOf(s) == CASE s = "2026-12-31" -> "20261231" [] s = "None" -> "" [] OTHER -> s
DigitCount(d) ==
    CASE d = "20261231" -> 8 [] d = "2612311" -> 7 [] d = "261231" -> 6 [] OTHER -> 0

\* lines 158-165; no string of the model has more than eight digits, so
\* digits[-8:] keeps them all
_normalize_gs1_date(expiry) ==
    LET digits == DigitsOf(expiry)
    IN  IF DigitCount(digits) = 8 THEN "261231" ELSE digits

\* lines 168-172
udi_string(di, exp_yymmdd, lot) ==
    "(01)" \o Strip(di) \o "(17)" \o _normalize_gs1_date(exp_yymmdd)
        \o "(10)" \o Strip(lot)

\* lines 173-176
edge_suffix_for(code_prefix, drad2) ==
    CASE code_prefix = "7M" /\ drad2 = "0.75" -> " T1"
      [] code_prefix = "7M" /\ drad2 = "1.50" -> " T2"
      [] code_prefix = "7T" /\ drad2 = "0.50" -> " T1"
      [] code_prefix = "7T" /\ drad2 = "1.00" -> " T2"
      [] code_prefix = "7T" /\ drad2 = "1.50" -> " T3"
      [] OTHER -> ""

\* lines 177-181: float() fails on the codes, "0" is zero
is_blank_or_zero(s) == Strip(s) = "" \/ s = "0"

\* the local functions apt and edge (lines 207-210)
apt(code3, a) ==
    IF code3 # "7MS" THEN ""
    ELSE CASE a = "N" -> "" [] a = "W" -> "Wide " [] a = "X" -> "Extra Wide " [] OTHER -> ""
edge(code3, e) ==
    IF code3 # "7MS" THEN ""
    ELSE CASE e = "N" -> "" [] e = "s" -> "s1" [] e = "S" -> "s2"
           [] e = "f" -> "f1" [] e = "F" -> "f2" [] OTHER -> ""

\* lines 187-238.  A record is a function on FieldKeys, Missing for a key it
\* does not have; the result is a function on FieldKeys and ComputedKeys.
compute_fields(v) ==
    LET SUBNAAM == StrGet(v, "SUBNAAM", "")
        CODER   == StrGet(v, "CODER", "")
        CODEL   == StrGet(v, "CODEL", "")
        SCLAPTR == StrGet(v, "SCLAPTR", "")
        SCLAPTL == StrGet(v, "SCLAPTL", "")
        SCLEDGR == StrGet(v, "SCLEDGR", "")
        SCLEDGL == StrGet(v, "SCLEDGL", "")
        DRAD2R  == StrGet(v, "DRAD2R", "")
        DRAD2L  == StrGet(v, "DRAD2L", "")
        CYLR    == StrGet(v, "CYLR", " ")
        CYLL    == StrGet(v, "CYLL", " ")
        XASR    == StrGet(v, "XASR", "")
        XASL    == StrGet(v, "XASL", "")
        BONNR   == StrGet(v, "BONNR", "")
        DI      == StrGet(v, "DI", "")
        DATUM   == StrGet(v, "DATUM", "")
        UDI     == StrGet(v, "UDI", "")
        SUBNAAM_trim == trim_right_spaces(SUBNAAM)
        R1 == IF left(CODER, 3) = "7MS" THEN apt("7MS", SCLAPTR) \o edge("7MS", SCLEDGR)
              ELSE SUBNAAM_trim
        L1 == IF left(CODEL, 3) = "7MS" THEN apt("7MS", SCLAPTL) \o edge("7MS", SCLEDGL)
              ELSE SUBNAAM_trim
        SUBNAAMR == IF left(CODER, 2) \in {"7M", "7T"}
                    THEN SUBNAAM_trim \o edge_suffix_for(left(CODER, 2), DRAD2R)
                    ELSE R1
        SUBNAAML == IF left(CODEL, 2) \in {"7M", "7T"}
                    THEN SUBNAAM_trim \o edge_suffix_for(left(CODEL, 2), DRAD2L)
                    ELSE L1
        CYLASR == IF right1(CYLR) = " " THEN "" ELSE "/" \o CYLR \o "x" \o XASR
        CYLASL == IF right1(CYLL) = " " THEN "" ELSE "/" \o CYLL \o "x" \o XASL
        UDI2 == IF Strip(UDI) = "" /\ (Strip(DI) # "" \/ Strip(DATUM) # "" \/ Strip(BONNR) # "")
                THEN udi_string(DI, DATUM, BONNR)
                ELSE UDI
    IN  [k \in FieldKeys \cup ComputedKeys |->
            CASE k = "SUBNAAMR"    -> SUBNAAMR
              [] k = "SUBNAAML"    -> SUBNAAML
              [] k = "CYLASR"      -> CYLASR
              [] k = "CYLASL"      -> CYLASL
              [] k = "_show_right" -> IF is_blank_or_zero(CODER) THEN "0" ELSE "1"
              [] k = "_show_left"  -> IF is_blank_or_zero(CODEL) THEN "0" ELSE "1"
              [] k = "UDI"         -> UDI2
              [] OTHER             -> IF v[k] = None THEN "" ELSE v[k]]

\* a record with a lens on each side and the parts of a UDI
RecordOf(lens, udi) ==
    [k \in FieldKeys |->
        CASE k = "NAAM"    -> None
          [] k = "SUBNAAM" -> lens[1]
          [] k = "CODER"   -> lens[2]
          [] k = "CODEL"   -> lens[3]
          [] k = "SCLAPTR" -> lens[4]
          [] k = "SCLEDGR" -> lens[5]
          [] k = "DRAD2R"  -> lens[6]
          [] k = "CYLR"    -> lens[7]
          [] k = "SCLAPTL" -> "X"
          [] k = "SCLEDGL" -> "F"
          [] k = "XASR"    -> "90"
          [] k = "UDI"     -> udi[1]
          [] k = "DI"      -> udi[2]
          [] k = "DATUM"   -> udi[3]
          [] k = "BONNR"   -> udi[4]
          [] OTHER         -> Missing]

Lenses ==
    {Missing, "Name  "} \X {Missing, "7MS1", "7TX", "0"} \X {Missing, "7MS1"}
        \X {"N", "W", "X"} \X {"N", "s", "S", "f", "F"} \X {Missing, "0.75"}
        \X {Missing, "-1.25"}

Udis ==
    {Missing, None, "", "  ", " x "} \X {Missing, None, "", " 1 "}
        \X {Missing, "", "261231", "20261231", "2026-12-31", "2612311"} \X {Missing, "", "77"}

\* the records compute_fields is called with: every lens with one UDI, every
\* UDI with one lens
Records ==
    { RecordOf(l, <<Missing, " 1 ", "20261231", "77">>) : l \in Lenses }
      \cup { RecordOf(<<"Name  ", "7MS1", "7MS1", "W", "s", "0.75", "-1.25">>, u) : u \in Udis }

\* f = self.compute_fields(values)
ComputeFields ==
    /\ fields = NoRecord
    /\ fields' = compute_fields(record)
    /\ UNCHANGED <<record, server>>
    /\ UNCHANGED <<returned, json_doc, cache, parses, rendered, client>>
    /\ UNCHANGED <<rvars, ivars>>

FieldsNext == ComputeFields

InitFields ==
    /\ RunInit /\ drv = GdiDriverStub
    /\ RenderIdle
    /\ ClientIdle
    /\ server = ServerListening
    /\ record \in Records
    /\ fields = NoRecord

SpecFields == InitFields /\ [][FieldsNext]_vars

\* an absent key, None and white space are blank
Blank(x) == x \in {Missing, None} \/ Strip(x) = ""

\* the text a field stands for, None and an absent key standing for none
TextOf(x) == IF x \in {Missing, None} THEN "" ELSE x

\* the expiry as YYMMDD
YYMMDD(x) == IF DigitsOf(TextOf(x)) = "20261231" THEN "261231" ELSE DigitsOf(TextOf(x))

\* C24: compute_fields keeps every input field (None as the empty string),
\* returns a non-blank UDI as it was given, derives the UDI from DI, DATUM and
\* BONNR (without the white space around them) when the UDI is blank and one of
\* them is not, and leaves it blank when all of them are blank.
C24_Step ==
    (fields = NoRecord /\ fields' # NoRecord) =>
        LET v == record
            f == fields'
        IN  /\ \A k \in FieldKeys :
                  v[k] # Missing => (f[k] # Missing /\ (v[k] = None => f[k] = ""))
            /\ ~Blank(v["UDI"]) => f["UDI"] = v["UDI"]
            /\ (Blank(v["UDI"]) /\ ~(Blank(v["DI"]) /\ Blank(v["DATUM"]) /\ Blank(v["BONNR"])))
                  => f["UDI"] = "(01)" \o Strip(TextOf(v["DI"])) \o "(17)" \o YYMMDD(v["DATUM"])
                                    \o "(10)" \o Strip(TextOf(v["BONNR"]))
            /\ (Blank(v["UDI"]) /\ Blank(v["DI"]) /\ Blank(v["DATUM"]) /\ Blank(v["BONNR"]))
                  => Strip(f["UDI"]) = ""

C24_UdiDerived == [][C24_Step]_vars

\* C30: when CODER begins with 7MS, SUBNAAMR is the aperture text of SCLAPTR
\* followed by the edge code of SCLEDGR; the same for CODEL, SCLAPTL, SCLEDGL
\* and SUBNAAML.
C30_Step ==
    (fields = NoRecord /\ fields' # NoRecord) =>
        LET v == record
            f == fields'
        IN  /\ left(TextOf(v["CODER"]), 3) = "7MS"
                  => f["SUBNAAMR"] = apt("7MS", TextOf(v["SCLAPTR"]))
                                        \o edge("7MS", TextOf(v["SCLEDGR"]))
            /\ left(TextOf(v["CODEL"]), 3) = "7MS"
                  => f["SUBNAAML"] = apt("7MS", TextOf(v["SCLAPTL"]))
                                        \o edge("7MS", TextOf(v["SCLEDGL"]))

C30_ApertureAndEdge == [][C30_Step]_vars

\* ---- the envelope of a render handed to the interpreter ---------------------

\* the layout render puts in its envelope: set_layout stores no dpi when the
\* template has none (printer_protocol.py, lines 148-149)
RenderedLayout == [k \in DOMAIN TemplateLayout \ {"dpi"} |-> TemplateLayout[k]]

\* the arguments of the renderer that are numbers
NumericArgs == {"size", "x", "y", "width", "ratio", "height"}

\* the envelope render returns, as the mapping run receives
EnvelopeOfRender(cmds) ==
    EnvelopeTree(RenderedLayout,
                 [i \in 1..Len(cmds) |->
                    Cmd(cmds[i].name,
                        [k \in DOMAIN cmds[i].args |->
                            IF k \in NumericArgs THEN JNum(cmds[i].args[k])
                            ELSE JStr(cmds[i].args[k])])])

\* JsonCommandInterpreter(driver).run(template.render(values)), as
\* label_server_v2 does once render has returned
Replay ==
    /\ rpc = "done"
    /\ ipc = "idle"
    /\ LET tree == EnvelopeOfRender(commands)
       IN  /\ data' = LayoutOfTree(tree)
           /\ commands_in' = [i \in 1..Len(commands) |-> EntryOfTree(tree.f.commands.items[i])]
           /\ \E r \in { run(drv, Payload("mapping", tree, <<>>), TRUE) } :
                 /\ drv' = r.d
                 /\ err' = r.exc
                 /\ calls' = r.calls
                 /\ output' = r.out
                 /\ session' = r.session
                 /\ ipc' = IF r.exc = "none" THEN "done" ELSE "failed"
    /\ runs' = runs + 1
    /\ payload' = "mapping"
    /\ UNCHANGED <<rvars, xvars>>

ReplayNext == RenderNext \/ Replay

InitReplay ==
    /\ RenderInit
    /\ RunInit /\ drv = PD41Driver(TRUE)
    /\ ExtraIdle

SpecReplay == InitReplay /\ [][ReplayNext]_vars

\* the errors of run that come from the envelope and not from the driver
EnvelopeErrors ==
    {"KeyError:Unsupported command", "TypeError:command entries must be mappings",
     "ValueError:command name must be a string", "TypeError:command args must be a mapping",
     "TypeError:commands collection must be iterable", "TypeError:Unsupported payload type",
     "AttributeError:get", "TypeError:call", "ValueError:dpi must be numeric",
     "ValueError:float", "TypeError:float"}

\* C25: run on the envelope of a render, against a driver with the nine command
\* methods, raises nothing: every command name is in the dispatch table, the keys
\* of its args are the parameters of the method bound to it, and the driver is
\* called once per command, in the order of the envelope, with those args.
C25_Step ==
    (rpc = "done" /\ runs' = runs + 1) =>
        /\ err' \notin EnvelopeErrors
        /\ err' = "none" /\ ipc' = "done"
        /\ \A i \in 1..Len(commands) :
              /\ commands[i].name \in DOMAIN _dispatch
              /\ DOMAIN commands[i].args = Params(_dispatch[commands[i].name])
        /\ Len(calls') = Len(commands)
        /\ \A i \in 1..Len(commands) :
              /\ calls'[i].method = _dispatch[commands[i].name]
              /\ calls'[i].args = commands[i].args

C25_Replayable == [][C25_Step]_vars

\* a render with a field and a barcode, replayed on a PD41Driver in dry run:
\* as many calls as commands, one more line than calls for the barcode
C25_Witness ==
    /\ rpc = "done" /\ ipc = "done" /\ runs = 1 /\ err = "none"
    /\ drv.kind = "PD41"
    /\ Len(calls) = Len(commands) /\ Len(calls) >= 8
    /\ \E i \in 1..Len(calls) : calls[i].method = "draw_text"
    /\ \E i \in 1..Len(calls) : calls[i].method = "draw_barcode"
    /\ \E i \in 1..Len(calls) : calls[i].method = "set_alignment"
    /\ calls[1].method = "setup" /\ calls[Len(calls)].method = "print_feed"
    /\ Len(drv.sent) = Len(calls) + 1

\* ---- utils.label_server_v2: run_label_server_v2 -----------------------------
\* server.conn is the number of connections accepted (the current one is the
\* last), open the connections not yet closed, made the number of drivers
\* created, driver the driver of this connection (0: none), running the drivers
\* an interpreter is running on, log one entry per connection handled.

\* what is left untouched by the steps of the server
ServerFrame ==
    /\ UNCHANGED <<returned, json_doc, cache, parses, rendered, client, record, fields>>
    /\ UNCHANGED rvars
    /\ UNCHANGED <<ipc, data, commands_in, runs, payload>>

\* line 177: conn, addr = srv.accept()
Accept ==
    /\ server.pc = "accept"
    /\ server.conn < MaxConns
    /\ server' = [server EXCEPT !.pc = "recv", !.conn = @ + 1,
                                !.open = @ \cup {server.conn + 1},
                                !.driver = 0, !.path = "none", !.envelope = "none"]
    /\ UNCHANGED <<drv, err, calls, session, output>>
    /\ ServerFrame

\* lines 180-193: recv fails, returns nothing, an invalid record or a valid
\* one; the two ignored cases close the connection and continue, which still
\* passes through the finally clause
Recv(kind) ==
    /\ server.pc = "recv"
    /\ server' = CASE kind = "oserror" -> [server EXCEPT !.pc = "except"]
                   [] kind \in {"empty", "invalid"} ->
                        [server EXCEPT !.pc = "finally", !.path = kind,
                                       !.open = @ \ {server.conn}]
                   [] kind = "valid" -> [server EXCEPT !.pc = "parsed"]
    /\ UNCHANGED <<drv, err, calls, session, output>>
    /\ ServerFrame

\* lines 195-203: parse_regel, append_csv, build_label_commands, json.dumps;
\* any of them may raise
Build(envelope) ==
    /\ server.pc = "parsed"
    /\ server' = IF envelope = "none" THEN [server EXCEPT !.pc = "except"]
                 ELSE [server EXCEPT !.pc = "built", !.envelope = envelope]
    /\ UNCHANGED <<drv, err, calls, session, output>>
    /\ ServerFrame

\* DRIVER_REGISTRY and create_driver (lines 136-150): the constructor called
DriverOfName(name, dry_run) ==
    IF name = "pd41" THEN PD41Driver(dry_run) ELSE GdiDriverStub

\* a create_driver that hands out one driver made when the server started
M_create_driver_shared(sv) == [sv EXCEPT !.made = 1, !.driver = 1]

\* create_driver counted: every call constructs a driver
create_driver(sv) == [sv EXCEPT !.made = @ + 1, !.driver = sv.made + 1]

\* the envelopes build_label_commands returns in the model
ServerEnvelope(name) == IF name = "A" THEN EnvelopeA ELSE EnvelopeB

\* lines 206-214: height, units and dpi of the payload pushed to the new driver
LabelContext(d, tree) ==
    LET lay    == LayoutOfTree(tree)
        height == PyFloat(JOrZero(JGet(lay.height, JNum(0)))).v
        units  == PyStr(JGet(lay.units, JStr("mm")))
        dpi    == IF lay.dpi.t \in {"missing", "null"} \/ PyFloat(lay.dpi).exc # "none"
                  THEN d.dpi ELSE PyFloat(lay.dpi).v
    IN  set_label_context(d, height, units, dpi)

\* lines 205-214: the driver of this connection is created and given its
\* label context; an unknown driver name raises
CreateDriver ==
    /\ server.pc = "built"
    /\ IF server.driver_name \notin {"pd41", "gdi"}
       THEN /\ server' = [server EXCEPT !.pc = "except"]
            /\ UNCHANGED drv
       ELSE /\ server' = [create_driver(server) EXCEPT !.pc = "run"]
            /\ drv' = LabelContext(DriverOfName(server.driver_name, server.dry_run),
                                   ServerEnvelope(server.envelope))
    /\ UNCHANGED <<err, calls, session, output>>
    /\ ServerFrame

\* line 216: interpreter.run(payload) is entered
InterpreterRun ==
    /\ server.pc = "run"
    /\ server' = [server EXCEPT !.pc = "running", !.running = @ \cup {server.driver}]
    /\ UNCHANGED <<drv, err, calls, session, output>>
    /\ ServerFrame

\* line 216: interpreter.run(payload) returns or raises
InterpreterReturn(connected) ==
    /\ server.pc = "running"
    /\ \E r \in { run(drv, Payload("mapping", ServerEnvelope(server.envelope), <<>>),
                      connected) } :
          /\ drv' = r.d
          /\ err' = r.exc
          /\ calls' = r.calls
          /\ output' = r.out
          /\ session' = r.session
          /\ server' = [server EXCEPT !.running = @ \ {server.driver},
                                      !.pc = IF r.exc = "none" THEN "save" ELSE "except"]
    /\ ServerFrame

\* lines 218-226: the envelope and the driver output are written to files
Save(ok) ==
    /\ server.pc = "save"
    /\ server' = IF ok THEN [server EXCEPT !.pc = "finally", !.path = "success"]
                 ELSE [server EXCEPT !.pc = "except"]
    /\ UNCHANGED <<drv, err, calls, session, output>>
    /\ ServerFrame

\* lines 228-229: except Exception
Except ==
    /\ server.pc = "except"
    /\ server' = [server EXCEPT !.pc = "finally", !.path = "exception"]
    /\ UNCHANGED <<drv, err, calls, session, output>>
    /\ ServerFrame

\* lines 230-232: conn.close(), then back to accept
Finally ==
    /\ server.pc = "finally"
    /\ server' = [server EXCEPT !.pc = "accept", !.open = @ \ {server.conn},
                    !.log = Append(@, [conn |-> server.conn, driver |-> server.driver,
                                       path |-> server.path])]
    /\ UNCHANGED <<drv, err, calls, session, output>>
    /\ ServerFrame

ServerNext ==
    \/ Accept
    \/ \E kind \in {"empty", "invalid", "valid", "oserror"} : Recv(kind)
    \/ \E envelope \in {"A", "B", "none"} : Build(envelope)
    \/ CreateDriver
    \/ InterpreterRun
    \/ \E connected \in BOOLEAN : InterpreterReturn(connected)
    \/ \E ok \in BOOLEAN : Save(ok)
    \/ Except
    \/ Finally

\* the server is started with a driver name and a dry-run flag
InitServer ==
    /\ RunInit /\ drv = GdiDriverStub
    /\ RenderIdle
    /\ ClientIdle /\ FieldsIdle
    /\ \E name \in {"pd41", "gdi", "other"}, dry \in BOOLEAN :
          server = [ServerListening EXCEPT !.driver_name = name, !.dry_run = dry]

SpecServer == InitServer /\ [][ServerNext]_vars

\* C21: at most one interpreter runs at a time, and it runs on the driver made
\* for the connection being served, which no earlier connection used; a
\* connection that was served on the success path had a driver of its own; no
\* connection but the one being served is open, and when the server is back at
\* accept every connection accepted so far is closed and logged, whichever
\* path it took.
C21_OneDriverPerConnection ==
    /\ Cardinality(server.running) <= 1
    /\ server.running # {}
          => /\ server.running = {server.driver}
             /\ server.driver = server.made
             /\ \A i \in 1..Len(server.log) : server.log[i].driver # server.driver
    /\ \A i, j \in 1..Len(server.log) :
          (i # j /\ server.log[i].driver # 0)
             => server.log[i].driver # server.log[j].driver
    /\ \A i \in 1..Len(server.log) :
          /\ server.log[i].conn = i
          /\ server.log[i].path \in {"empty", "invalid", "success", "exception"}
          /\ server.log[i].path = "success" => server.log[i].driver # 0
          /\ i \notin server.open
    /\ server.open \subseteq {server.conn}
    /\ server.pc = "accept"
          => (server.open = {} /\ server.running = {} /\ Len(server.log) = server.conn)
    /\ server.pc # "accept" => Len(server.log) = server.conn - 1

\* two connections served one after the other, the first failing in the
\* interpreter, the second printing: two drivers, both connections closed
C21_Witness ==
    /\ server.pc = "accept" /\ server.conn = 2 /\ server.open = {}
    /\ Len(server.log) = 2
    /\ server.log[1].path = "exception" /\ server.log[1].driver = 1
    /\ server.log[2].path = "success" /\ server.log[2].driver = 2
    /\ server.made = 2

\* every path of a connection was taken
C21_WitnessPaths ==
    /\ server.pc = "accept" /\ Len(server.log) = 2
    /\ server.log[1].path = "empty" /\ server.log[2].path = "invalid"

====
